---------------------------- MODULE Spec2Model ----------------------------
(***************************************************************************)
(* OCR evaluation pipeline of ocr-testing-app/backend.                     *)
(*                                                                         *)
(*   Spec       test-run state machine: run_tests, run_test_background     *)
(*              (with process_batch / process_document inlined step by     *)
(*              step), cancel_test_run, and process_batch called directly  *)
(*   SpecMatch  OCRPipelineService._match_fields applied to bounded inputs *)
(*   SpecAcc    OCRPipelineService._calculate_accuracy on bounded inputs   *)
(*                                                                         *)
(* Strings are sequences of one-character strings.  Floats that the code   *)
(* computes as quotients of small integers are kept as exact fractions     *)
(* <<numerator, denominator>> and compared by cross-multiplication.        *)
(***************************************************************************)
EXTENDS Integers, Sequences, FiniteSets, TLC

VARIABLES
    \* ---- test-run machine (routers/tests.py, services/ocr_pipeline.py)
    testRun,        \* the test_runs document of the run, or NoRun
    results,        \* the results collection, in creation order
    response,       \* what run_tests answered: "none", "404", "400", "200"
    request,        \* the RunTestsRequest that run_tests received
    task,           \* arguments of run_test_background / of a direct call
    caller,         \* who drives the pipeline: "none", "run_tests", "direct"
    pc,             \* position of the background task / the direct call
    batchIdx,       \* index in batch_ids of the batch being processed
    docIdx,         \* enumerate() index i of process_batch (0-based)
    total_processed,\* local of run_test_background
    raised,         \* exception text that left process_batch, or None
    log,            \* history of the calls the pipeline made
    \* ---- _match_fields applied to an input
    mExpected,      \* document.field_values, in mapping order
    mOcr,           \* ocr_results_list
    mFields,        \* the returned extracted_fields
    mAccuracy,      \* overall_accuracy of process_document
    mpc,            \* "idle", "input", "scored"
    \* ---- _calculate_accuracy applied to an input
    aFields,        \* extracted_fields handed to _calculate_accuracy
    aResult,        \* its return value
    apc,            \* "idle", "input", "returned"
    \* ---- an engine adapter's extract_text applied to an input
    eEngine,        \* name of the adapter
    eRegions,       \* the regions handed to extract_text
    eModel,         \* what the underlying model does on each region's crop
    eResults,       \* the list extract_text returns
    eRaised,        \* TRUE when an exception left extract_text
    epc,            \* "idle", "input", "returned", "raised"
    \* ---- process_document_full_text applied to an input
    fImage,         \* size of the downloaded image
    fCalls,         \* the calls it made, in order
    fReturn,        \* the dictionary it returned
    fpc,            \* "idle", "input", "returned", "raised"
    \* ---- a layout detector's detect applied to an input
    dDetector,      \* name of the detector
    dRaw,           \* the raw detections of the model, in its order
    dRegions,       \* the regions detect returns
    dpc,            \* "idle", "input", "returned"
    \* ---- the matcher's similarity applied to two strings
    sExpected,      \* the expected value
    sText,          \* the candidate text
    sScore,         \* SequenceMatcher(None, lower, lower).ratio()
    spc,            \* "idle", "input", "scored"
    \* ---- cancel_test_run
    cancelResponse, \* what the last cancel_test_run answered, or "none"
    cancelledAt,    \* Len(log) at the last accepted cancel, -1 before any
    \* ---- _load_model of one adapter class, over the life of a process
    lAdapter,       \* the adapter class
    lCache,         \* which of its class attributes hold a constructed object
    lCtorRuns,      \* how often each of its constructors has been called
    lCalls,         \* number of _load_model calls so far
    lInstance,      \* the adapter instance of the last call
    lLast,          \* outcome of the last call: "none", "constructed",
                    \* "cached", "raised"
    \* ---- generate_filled_form applied to a template's field mappings
    gMappings,      \* form.field_mappings, in list order
    gOptions,       \* field_value_options of the request
    gDrawn,         \* the value draw.text wrote for each mapping, in order
    gFieldValues,   \* field_values of the SyntheticDocument: (name, value) pairs
    gpc,            \* "idle", "input", "returned"
    \* ---- _get_synthetic_value applied to an input
    vName,          \* field_name
    vOptions,       \* custom_options; <<>> for None and for the empty list
    vType,          \* field_type, or None
    vValue,         \* the value it returned
    vpc,            \* "idle", "input", "returned"
    \* ---- verify_document applied to a stored result
    rResult,        \* the result found for the document, with what it stores
    rRequest,       \* the VerifyDocumentRequest, once received
    rResponse,      \* "none", "404", "200"
    rpc,            \* "idle", "input", "returned"
    \* ---- apply_scan_effects applied to an image
    scImage,        \* the input image: mode, width, height
    scPreset,       \* the preset name
    scReturn,       \* the image returned, with the angle random drew
    scpc            \* "idle", "input", "returned"

runVars == <<testRun, results, response, request, task, caller, pc, batchIdx, docIdx,
             total_processed, raised, log>>
matchVars == <<mExpected, mOcr, mFields, mAccuracy, mpc>>
accVars == <<aFields, aResult, apc>>
engineVars == <<eEngine, eRegions, eModel, eResults, eRaised, epc>>
fullTextVars == <<fImage, fCalls, fReturn, fpc>>
detectVars == <<dDetector, dRaw, dRegions, dpc>>
simVars == <<sExpected, sText, sScore, spc>>
loadVars == <<lAdapter, lCache, lCtorRuns, lCalls, lInstance, lLast>>
genVars == <<gMappings, gOptions, gDrawn, gFieldValues, gpc>>
valueVars == <<vName, vOptions, vType, vValue, vpc>>
verifyVars == <<rResult, rRequest, rResponse, rpc>>
scanVars == <<scImage, scPreset, scReturn, scpc>>
otherVars == <<valueVars, verifyVars, scanVars>>
restVars == <<loadVars, genVars, otherVars>>
pureVars == <<engineVars, fullTextVars, detectVars, simVars, restVars>>
cancelVars == <<cancelResponse, cancelledAt>>
auxVars == <<pureVars, cancelVars>>
vars == <<runVars, matchVars, accVars, auxVars>>

None == "None"

(***************************************************************************)
(* Bounds of the model.                                                    *)
(***************************************************************************)
MaxFields == 1        \* entries of a document's field_values
MaxRegions == 2       \* OCR results (one per region) handed to the matcher
MaxTotalLines == 3    \* text lines over all regions of one document
MaxAccFields == 2     \* fields handed to _calculate_accuracy directly
MaxBatchIds == 2      \* length of request.batch_ids
MaxMappingLen == 2    \* entries of a mapping whose order is examined
MaxEngineRegions == 2 \* regions handed to an adapter's extract_text
MaxRawItems == 2      \* items the model returns over all crops of one call
MaxDetections == 3    \* raw detections a layout model returns for one image
MaxStringLen == 3     \* length of the strings whose similarity is computed
MaxLoads == 3         \* _load_model calls on one adapter class
MaxInstances == 2     \* instances of one adapter class
MaxGenMappings == 2   \* field mappings of a template
MaxVerifyFields == 2  \* extracted fields of a result under verification
MaxRequestFields == 2 \* entries of request.fields
MaxImageSide == 3     \* width and height of the images given to the scan simulator

(***************************************************************************)
(* Exact fractions.                                                        *)
(***************************************************************************)
Frac(n, d) == <<n, d>>
FGt(x, y) == x[1] * y[2] > y[1] * x[2]
FEq(x, y) == x[1] * y[2] = y[1] * x[2]
FAdd(x, y) == <<x[1] * y[2] + y[1] * x[2], x[2] * y[2]>>
Zero == Frac(0, 1)
One == Frac(1, 1)

Max(a, b) == IF a >= b THEN a ELSE b

(***************************************************************************)
(* str.lower() on the model's alphabet.                                    *)
(***************************************************************************)
\* Mutant of LowerChar: the comparison forgets .lower().
LowerCharKeepsCase(c) == c

LowerChar(c) == CASE c = "A" -> "a" [] c = "B" -> "b" [] OTHER -> c
Lower(s) == [i \in 1..Len(s) |-> LowerChar(s[i])]

(***************************************************************************)
(* difflib.SequenceMatcher(None, a, b).ratio().  Indices are Python's      *)
(* (0-based, half-open); a[i] of Python is a[i+1] here.  No junk function  *)
(* is given and autojunk only acts on sequences of 200 or more elements,   *)
(* far above the lengths modelled.                                         *)
(***************************************************************************)
BlockAt(a, b, i, j, k) == \A d \in 0..(k - 1) : a[i + d + 1] = b[j + d + 1]

\* find_longest_match: the longest common block; of those the one starting
\* earliest in a; of those the one starting earliest in b.
Min(a, b) == IF a <= b THEN a ELSE b

FindLongestMatch(a, b, alo, ahi, blo, bhi) ==
    LET HasBlock(k) == \E i \in alo..(ahi - k) : \E j \in blo..(bhi - k) :
                           BlockAt(a, b, i, j, k)
        sizes == {k \in 1..Min(ahi - alo, bhi - blo) : HasBlock(k)}
        bestsize == Cardinality(sizes)
        besti == CHOOSE i \in alo..(ahi - bestsize) :
                     /\ \E j \in blo..(bhi - bestsize) : BlockAt(a, b, i, j, bestsize)
                     /\ \A i2 \in alo..(i - 1) : \A j \in blo..(bhi - bestsize) :
                            ~BlockAt(a, b, i2, j, bestsize)
        bestj == CHOOSE j \in blo..(bhi - bestsize) :
                     /\ BlockAt(a, b, besti, j, bestsize)
                     /\ \A j2 \in blo..(j - 1) : ~BlockAt(a, b, besti, j2, bestsize)
    IN  IF bestsize = 0 THEN <<alo, blo, 0>> ELSE <<besti, bestj, bestsize>>

\* get_matching_blocks: total size of the blocks found by recursing to the
\* left and to the right of the longest match.
RECURSIVE MatchingSize(_, _, _, _, _, _)
MatchingSize(a, b, alo, ahi, blo, bhi) ==
    LET m == FindLongestMatch(a, b, alo, ahi, blo, bhi)
        i == m[1]
        j == m[2]
        k == m[3]
    IN  IF k = 0 THEN 0
        ELSE k + (IF alo < i /\ blo < j
                     THEN MatchingSize(a, b, alo, i, blo, j) ELSE 0)
               + (IF i + k < ahi /\ j + k < bhi
                     THEN MatchingSize(a, b, i + k, ahi, j + k, bhi) ELSE 0)

\* Mutant of Ratio: two empty sequences score 0.0.
RatioZeroWhenEmpty(a, b) ==
    LET length == Len(a) + Len(b)
    IN  IF length > 0
        THEN Frac(2 * MatchingSize(a, b, 0, Len(a), 0, Len(b)), length)
        ELSE Zero

\* _calculate_ratio: 2.0 * matches / length, and 1.0 when length is 0.
Ratio(a, b) ==
    LET length == Len(a) + Len(b)
    IN  IF length > 0
        THEN Frac(2 * MatchingSize(a, b, 0, Len(a), 0, Len(b)), length)
        ELSE One

\* The score of one candidate text against one expected value.
Similarity(expected_value, text) == Ratio(Lower(expected_value), Lower(text))

(***************************************************************************)
(* OCRPipelineService._match_fields                                        *)
(***************************************************************************)
RECURSIVE SumConfidence(_)
SumConfidence(lines) ==
    IF lines = <<>> THEN 0
    ELSE Head(lines).confidence + SumConfidence(Tail(lines))

\* Mutant of NoBest: best_score starts below every score.
NoBestBelowZero == [match |-> <<>>, score |-> Frac(0 - 1, 1), confidence |-> Zero]

NoBest == [match |-> <<>>, score |-> Zero, confidence |-> Zero]

\* Mutant of LineStep: ">=" instead of ">", the last of tied lines wins.
LineStepLastWins(best, expected_value, line) ==
    LET score == Similarity(expected_value, line.text)
    IN  IF ~FGt(best.score, score)
        THEN [match |-> line.text, score |-> score,
              confidence |-> Frac(line.confidence, 1)]
        ELSE best

\* One iteration of `for line in ocr_result.lines`.
LineStep(best, expected_value, line) ==
    LET score == Similarity(expected_value, line.text)
    IN  IF FGt(score, best.score)
        THEN [match |-> line.text, score |-> score,
              confidence |-> Frac(line.confidence, 1)]
        ELSE best

RECURSIVE LinesLoop(_, _, _)
LinesLoop(best, expected_value, lines) ==
    IF lines = <<>> THEN best
    ELSE LinesLoop(LineStep(best, expected_value, Head(lines)),
                   expected_value, Tail(lines))

\* Mutant of FullTextStep: best_confidence is not updated with the match.
FullTextStepStaleConfidence(best, expected_value, ocr_result) ==
    LET score == Similarity(expected_value, ocr_result.full_text)
    IN  IF FGt(score, best.score)
        THEN [match |-> ocr_result.full_text, score |-> score,
              confidence |-> best.confidence]
        ELSE best

\* "Also check full text", after the lines of the same result.
FullTextStep(best, expected_value, ocr_result) ==
    LET score == Similarity(expected_value, ocr_result.full_text)
    IN  IF FGt(score, best.score)
        THEN [match |-> ocr_result.full_text, score |-> score,
              confidence |-> Frac(SumConfidence(ocr_result.lines),
                                  Max(Len(ocr_result.lines), 1))]
        ELSE best

RECURSIVE ResultsLoop(_, _, _)
ResultsLoop(best, expected_value, ocr_results) ==
    IF ocr_results = <<>> THEN best
    ELSE ResultsLoop(
             FullTextStep(LinesLoop(best, expected_value, Head(ocr_results).lines),
                          expected_value, Head(ocr_results)),
             expected_value, Tail(ocr_results))

ExtractedField(field_name, expected_value, best) ==
    [field_name |-> field_name,
     expected_value |-> expected_value,
     extracted_value |-> best.match,
     confidence |-> best.confidence,
     match_score |-> best.score,
     is_important |-> TRUE,
     verification_status |-> "unverified",
     corrected_value |-> None]

\* Mutant of MatchFields: the fields come out in reverse mapping order.
MatchFieldsReversed(expected_values, ocr_results) ==
    [i \in 1..Len(expected_values) |->
        LET e == expected_values[Len(expected_values) + 1 - i]
        IN  ExtractedField(e.name, e.value, ResultsLoop(NoBest, e.value, ocr_results))]

\* for field_name, expected_value in expected_values.items(): one field per
\* entry, appended in the mapping's iteration (insertion) order.
MatchFields(expected_values, ocr_results) ==
    [i \in 1..Len(expected_values) |->
        ExtractedField(expected_values[i].name, expected_values[i].value,
                       ResultsLoop(NoBest, expected_values[i].value, ocr_results))]

(***************************************************************************)
(* OCRPipelineService._calculate_accuracy                                  *)
(***************************************************************************)
RECURSIVE SumScores(_)
SumScores(fields) ==
    IF fields = <<>> THEN Zero
    ELSE FAdd(Head(fields).match_score, SumScores(Tail(fields)))

IsImportant(f) == f.is_important

\* total_score / len(important).  A zero divisor, on which Python raises
\* ZeroDivisionError, shows as a fraction whose denominator is 0.
Divide(total_score, n) == Frac(total_score[1], total_score[2] * n)

\* Mutant of ImportantOrAll: no fallback to all fields.
ImportantOnly(extracted_fields) == SelectSeq(extracted_fields, IsImportant)

ImportantOrAll(extracted_fields) ==
    LET important == SelectSeq(extracted_fields, IsImportant)
    IN  IF important = <<>> THEN extracted_fields ELSE important

CalculateAccuracy(extracted_fields) ==
    IF extracted_fields = <<>> THEN Zero
    ELSE LET important == ImportantOrAll(extracted_fields)
         IN  Divide(SumScores(important), Len(important))

(***************************************************************************)
(* Inputs of the matcher: what the engine adapters hand to _match_fields.  *)
(***************************************************************************)
LineTexts == {<<"a">>, <<"A">>, <<"a", " ", "a">>}
ExpectedTexts == {<<>>, <<"a">>, <<"b">>, <<"a", " ", "a">>}
FieldNames == <<"case_number", "defendant_name", "court_date", "judge">>

\* " ".join(full_text_parts) of the adapters.
Separators == {" "}

\* Confidence (in hundredths) of the k-th line emitted for a document: all
\* lines of one document differ in confidence.
ConfidenceAt(k) == 100 - 10 * k

RECURSIVE JoinTexts(_, _)
JoinTexts(lines, sep) ==
    IF lines = <<>> THEN <<>>
    ELSE IF Len(lines) = 1 THEN Head(lines).text
    ELSE Head(lines).text \o <<sep>> \o JoinTexts(Tail(lines), sep)

\* OCRResult(region_id, full_text, lines) as the adapters build it.
OCRResult(region_id, lines, sep) ==
    [region_id |-> region_id, full_text |-> JoinTexts(lines, sep), lines |-> lines]

TextLine(text, confidence) == [text |-> text, confidence |-> confidence]

FlatLines == UNION {[1..n -> LineTexts] : n \in 0..MaxTotalLines}

\* Ways to deal n lines, in order, to r regions (a region may get none).
Splits(n, r) == {f \in [1..n -> 1..r] : \A i \in 1..(n - 1) : f[i] <= f[i + 1]}

LinesOfRegion(flat, f, region) ==
    LET idx == {i \in 1..Len(flat) : f[i] = region}
        first == IF idx = {} THEN 0 ELSE CHOOSE i \in idx : \A j \in idx : i <= j
    IN  [k \in 1..Cardinality(idx) |->
            TextLine(flat[first + k - 1], ConfidenceAt(first + k - 1))]

OcrOf(flat, f, r, sep) ==
    [region \in 1..r |-> OCRResult(region, LinesOfRegion(flat, f, region), sep)]

OcrInputs ==
    UNION {UNION {{OcrOf(flat, f, r, sep) : f \in Splits(Len(flat), r), sep \in Separators}
                  : r \in 0..MaxRegions}
           : flat \in FlatLines}

ExpectedInputs ==
    UNION {{[i \in 1..n |-> [name |-> FieldNames[i], value |-> v[i]]]
            : v \in [1..n -> ExpectedTexts]}
           : n \in 0..MaxFields}

ScoreValues == {Zero, Frac(1, 2), Frac(2, 3), One}

AccField(score, important) ==
    [ExtractedField("f", <<"a">>, [match |-> <<"a">>, score |-> score,
                                  confidence |-> Zero])
        EXCEPT !.is_important = important]

AccInputs ==
    UNION {{[i \in 1..n |-> AccField(v[i][1], v[i][2])]
            : v \in [1..n -> ScoreValues \X BOOLEAN]}
           : n \in 0..MaxAccFields}

(***************************************************************************)
(* Idle values of the parts a specification does not exercise.             *)
(***************************************************************************)
NoRun ==
    [exists |-> FALSE, status |-> None, error_message |-> None,
     completed_at |-> FALSE, total_documents |-> 0, processed_documents |-> 0,
     batch_ids |-> <<>>, layout_library |-> "", ocr_library |-> ""]
NoRequest == [batch_ids |-> <<>>, layout_library |-> "", ocr_library |-> ""]
NoTask ==
    [test_run_id |-> None, batch_ids |-> <<>>, layout_library |-> "",
     ocr_library |-> ""]

RunIdle ==
    /\ testRun = NoRun
    /\ results = <<>>
    /\ response = "none"
    /\ request = NoRequest
    /\ task = NoTask
    /\ caller = "none"
    /\ pc = "idle"
    /\ batchIdx = 0
    /\ docIdx = 0
    /\ total_processed = 0
    /\ raised = None
    /\ log = <<>>
    /\ cancelResponse = "none"
    /\ cancelledAt = 0 - 1

MatchIdle ==
    /\ mExpected = <<>>
    /\ mOcr = <<>>
    /\ mFields = <<>>
    /\ mAccuracy = Zero
    /\ mpc = "idle"

AccIdle ==
    /\ aFields = <<>>
    /\ aResult = Zero
    /\ apc = "idle"

EngineIdle ==
    /\ eEngine = None
    /\ eRegions = <<>>
    /\ eModel = <<>>
    /\ eResults = <<>>
    /\ eRaised = FALSE
    /\ epc = "idle"

NoImage == [width |-> 0, height |-> 0]
NoReturn ==
    [layout_results |-> [library |-> "", regions |-> <<>>],
     ocr_results |-> [regions |-> <<>>, full_text |-> <<>>, text_regions |-> <<>>],
     extracted_fields |-> <<>>,
     overall_accuracy |-> <<0, 1>>]

FullTextIdle ==
    /\ fImage = NoImage
    /\ fCalls = <<>>
    /\ fReturn = NoReturn
    /\ fpc = "idle"

DetectIdle ==
    /\ dDetector = None
    /\ dRaw = <<>>
    /\ dRegions = <<>>
    /\ dpc = "idle"

SimIdle ==
    /\ sExpected = <<>>
    /\ sText = <<>>
    /\ sScore = <<0, 1>>
    /\ spc = "idle"

LoadIdle ==
    /\ lAdapter = None
    /\ lCache = <<FALSE, FALSE>>
    /\ lCtorRuns = <<0, 0>>
    /\ lCalls = 0
    /\ lInstance = 0
    /\ lLast = "none"

GenIdle ==
    /\ gMappings = <<>>
    /\ gOptions = None
    /\ gDrawn = <<>>
    /\ gFieldValues = {}
    /\ gpc = "idle"

ValueIdle ==
    /\ vName = None
    /\ vOptions = <<>>
    /\ vType = None
    /\ vValue = None
    /\ vpc = "idle"

VerifyIdle ==
    /\ rResult = None
    /\ rRequest = None
    /\ rResponse = "none"
    /\ rpc = "idle"

ScanIdle ==
    /\ scImage = None
    /\ scPreset = None
    /\ scReturn = None
    /\ scpc = "idle"

OtherIdle == ValueIdle /\ VerifyIdle /\ ScanIdle

RestIdle == LoadIdle /\ GenIdle /\ OtherIdle

AuxIdle == EngineIdle /\ FullTextIdle /\ DetectIdle /\ SimIdle /\ RestIdle

(***************************************************************************)
(* SpecMatch: process_document's scoring (lines 59-65) on every input.     *)
(***************************************************************************)
InitMatch ==
    /\ mExpected \in ExpectedInputs
    /\ mOcr \in OcrInputs
    /\ mFields = <<>>
    /\ mAccuracy = Zero
    /\ mpc = "input"
    /\ RunIdle
    /\ AccIdle
    /\ AuxIdle

MatchAndScore ==
    /\ mpc = "input"
    /\ mFields' = MatchFields(mExpected, mOcr)
    /\ mAccuracy' = CalculateAccuracy(mFields')
    /\ mpc' = "scored"
    /\ UNCHANGED <<mExpected, mOcr, runVars, accVars, auxVars>>

NextMatch == MatchAndScore

SpecMatch == InitMatch /\ [][NextMatch]_vars

(***************************************************************************)
(* SpecFields: _match_fields on expected-value mappings of several         *)
(* entries, whose names come in any order, against a few OCR results.      *)
(***************************************************************************)
\* The mappings: sequences of entries with distinct names (the keys of a
\* dict), in insertion order.
MappingInputs ==
    UNION {{[i \in 1..n |-> [name |-> FieldNames[names[i]], value |-> v[i]]]
            : names \in {f \in [1..n -> 1..Len(FieldNames)] :
                             \A i, j \in 1..n : i # j => f[i] # f[j]},
              v \in [1..n -> ExpectedTexts]}
           : n \in 0..MaxMappingLen}

MappingOcrInputs ==
    {<<>>,
     <<OCRResult(1, <<TextLine(<<"a">>, 90)>>, " ")>>,
     <<OCRResult(1, <<TextLine(<<"A">>, 90), TextLine(<<"a", " ", "a">>, 80)>>, " "),
       OCRResult(2, <<>>, " ")>>}

InitFields ==
    /\ mExpected \in MappingInputs
    /\ mOcr \in MappingOcrInputs
    /\ mFields = <<>>
    /\ mAccuracy = Zero
    /\ mpc = "input"
    /\ RunIdle
    /\ AccIdle
    /\ AuxIdle

SpecFields == InitFields /\ [][NextMatch]_vars

\* C11: once _match_fields has returned, there is exactly one field per
\* entry of the expected-value mapping, in mapping order, each with the
\* entry's name and expected value, is_important true, verification_status
\* unverified and no corrected_value.
C11_OneFieldPerEntry ==
    mpc = "scored" =>
        /\ Len(mFields) = Len(mExpected)
        /\ \A i \in 1..Len(mExpected) :
               /\ mFields[i].field_name = mExpected[i].name
               /\ mFields[i].expected_value = mExpected[i].value
               /\ mFields[i].is_important = TRUE
               /\ mFields[i].verification_status = "unverified"
               /\ mFields[i].corrected_value = None

\* C11 witness: a mapping of two entries whose names are not in the order
\* of FieldNames and whose values differ has been matched.
C11_Witness ==
    /\ mpc = "scored"
    /\ Len(mExpected) = 2
    /\ mExpected[1].name = "judge"
    /\ mExpected[2].name = "case_number"
    /\ mExpected[1].value # mExpected[2].value
    /\ mOcr # <<>>

(***************************************************************************)
(* SpecAcc: _calculate_accuracy on every bounded list of fields.           *)
(***************************************************************************)
InitAcc ==
    /\ aFields \in AccInputs
    /\ aResult = Zero
    /\ apc = "input"
    /\ RunIdle
    /\ MatchIdle
    /\ AuxIdle

CalculateAccuracyCall ==
    /\ apc = "input"
    /\ aResult' = CalculateAccuracy(aFields)
    /\ apc' = "returned"
    /\ UNCHANGED <<aFields, runVars, matchVars, auxVars>>

NextAcc == CalculateAccuracyCall

SpecAcc == InitAcc /\ [][NextAcc]_vars

(***************************************************************************)
(* The OCR engine adapters (processing/ocr).  What the underlying model    *)
(* returns for one cropped region is a sequence of raw items               *)
(*     [text, conf, line_num]                                              *)
(* read by each adapter in its own way: detections (easyocr), recognised   *)
(* text lines (surya, paddleocr, trocr), words with a line number and a    *)
(* confidence in percent (tesseract), content blocks (mineru), or the      *)
(* pieces of the one decoded string, separated by "\n" (got_ocr).          *)
(* Confidences are kept in hundredths.                                     *)
(***************************************************************************)
\* str.strip(), str.split("\n") and sep.join(parts).
IsSpace(c) == c \in {" ", "\n"}

RECURSIVE LStrip(_)
LStrip(s) == IF s # <<>> /\ IsSpace(Head(s)) THEN LStrip(Tail(s)) ELSE s

RECURSIVE RStrip(_)
RStrip(s) ==
    IF s # <<>> /\ IsSpace(s[Len(s)]) THEN RStrip(SubSeq(s, 1, Len(s) - 1)) ELSE s

Strip(s) == RStrip(LStrip(s))

RECURSIVE SplitLines(_)
SplitLines(s) ==
    IF \A i \in 1..Len(s) : s[i] # "\n" THEN <<s>>
    ELSE LET k == CHOOSE i \in 1..Len(s) :
                      s[i] = "\n" /\ \A j \in 1..(i - 1) : s[j] # "\n"
         IN  <<SubSeq(s, 1, k - 1)>> \o SplitLines(SubSeq(s, k + 1, Len(s)))

RECURSIVE JoinStrings(_, _)
JoinStrings(parts, sep) ==
    IF parts = <<>> THEN <<>>
    ELSE IF Len(parts) = 1 THEN Head(parts)
    ELSE Head(parts) \o <<sep>> \o JoinStrings(Tail(parts), sep)

\* OCRResult(region_id=..., full_text=..., lines=...)
OcrResultOf(region_id, full_text, lines) ==
    [region_id |-> region_id, full_text |-> full_text, lines |-> lines]

TextsOf(lines) == [k \in 1..Len(lines) |-> lines[k].text]

\* The tail every adapter but got_ocr ends with: each kept text is appended
\* to lines and to full_text_parts, and full_text = " ".join(full_text_parts).
JoinedResult(region_id, lines) ==
    OcrResultOf(region_id, JoinStrings(TextsOf(lines), " "), lines)

\* The stripped, non-empty pieces of a text split at "\n" (got_ocr, mineru).
NonEmptyStrippedLines(text) ==
    LET IsNonEmpty(t) == t # <<>>
        pieces == SplitLines(text)
    IN  SelectSeq([k \in 1..Len(pieces) |-> Strip(pieces[k])], IsNonEmpty)

\* EasyOCREngine._process_cropped_image: every detection becomes a line.
EasyOCRProcess(items, region_id) ==
    JoinedResult(region_id,
                 [k \in 1..Len(items) |-> TextLine(items[k].text, items[k].conf)])

\* SuryaOCREngine._process_cropped_image: every text line of results[0].
SuryaProcess(items, region_id) ==
    JoinedResult(region_id,
                 [k \in 1..Len(items) |-> TextLine(items[k].text, items[k].conf)])

\* PaddleOCREngine._process_cropped_image: `if not text: continue`.
PaddleOCRProcess(items, region_id) ==
    LET HasText(it) == it.text # <<>>
        kept == SelectSeq(items, HasText)
    IN  JoinedResult(region_id,
                     [k \in 1..Len(kept) |-> TextLine(kept[k].text, kept[k].conf)])

\* TrOCREngine._process_cropped_image: one decoded, stripped text per line
\* crop; an empty one is skipped; the confidence is the constant 0.9.
TrOCRProcess(items, region_id) ==
    LET HasText(it) == Strip(it.text) # <<>>
        kept == SelectSeq(items, HasText)
    IN  JoinedResult(region_id,
                     [k \in 1..Len(kept) |-> TextLine(Strip(kept[k].text), 90)])

\* TesseractEngine._process_cropped_image: words are stripped, empty words
\* and words with conf < 0 are dropped, the rest is grouped by line_num;
\* the groups, in ascending line_num, become the lines.
TesseractProcess(items, region_id) ==
    LET IsWord(it) == Strip(it.text) # <<>> /\ it.conf >= 0
        words == SelectSeq(items, IsWord)
        line_nums == {words[k].line_num : k \in 1..Len(words)}
        SortedKeys == CHOOSE f \in [1..Cardinality(line_nums) -> line_nums] :
                          \A i, j \in 1..Cardinality(line_nums) : i < j => f[i] < f[j]
        Group(n) == LET InLine(it) == it.line_num = n IN SelectSeq(words, InLine)
        LineOf(n) ==
            LET group == Group(n)
            IN  TextLine(JoinStrings([k \in 1..Len(group) |-> Strip(group[k].text)], " "),
                         SumConfidence([k \in 1..Len(group) |->
                                           [confidence |-> group[k].conf]])
                             \div Len(group))
    IN  JoinedResult(region_id,
                     [k \in 1..Cardinality(line_nums) |-> LineOf(SortedKeys[k])])

\* GotOCREngine._process_cropped_image: full_text is the stripped decoded
\* string itself; the lines are its stripped non-empty pieces.
GotOCRProcess(items, region_id) ==
    LET decoded == JoinStrings(TextsOf(items), "\n")
        full_text == Strip(decoded)
        texts == IF full_text # <<>> THEN NonEmptyStrippedLines(full_text) ELSE <<>>
    IN  OcrResultOf(region_id, full_text,
                    [k \in 1..Len(texts) |-> TextLine(texts[k], 95)])

\* MinerUEngine._process_cropped_image, after two_step_extract returned:
\* blocks without content are skipped, each content is stripped and split.
RECURSIVE MinerULines(_)
MinerULines(blocks) ==
    IF blocks = <<>> THEN <<>>
    ELSE (IF Head(blocks).text = <<>> THEN <<>>
          ELSE LET texts == NonEmptyStrippedLines(Strip(Head(blocks).text))
               IN  [k \in 1..Len(texts) |-> TextLine(texts[k], 90)])
         \o MinerULines(Tail(blocks))

MinerUProcess(items, region_id) == JoinedResult(region_id, MinerULines(items))

EmptyOcrResult(region_id) == OcrResultOf(region_id, <<>>, <<>>)

\* _process_cropped_image of the named adapter on one crop.  `crop` says
\* whether the model call fails on it and what it returns otherwise.  Only
\* mineru wraps the model call in try/except; everywhere else the
\* exception leaves _process_cropped_image.
CropRaises(engine, crop) == crop.fails /\ engine # "mineru"

ProcessCroppedImage(engine, crop, region_id) ==
    CASE engine = "easyocr" -> EasyOCRProcess(crop.items, region_id)
      [] engine = "surya" -> SuryaProcess(crop.items, region_id)
      [] engine = "paddleocr" -> PaddleOCRProcess(crop.items, region_id)
      [] engine = "tesseract" -> TesseractProcess(crop.items, region_id)
      [] engine = "trocr" -> TrOCRProcess(crop.items, region_id)
      [] engine = "got_ocr" -> GotOCRProcess(crop.items, region_id)
      [] engine = "mineru" ->
             IF crop.fails THEN EmptyOcrResult(region_id)
             ELSE MinerUProcess(crop.items, region_id)

\* OCREngineBase.extract_from_region: crop by the bbox, then delegate with
\* region.id.
ExtractFromRegion(engine, region, crop) == ProcessCroppedImage(engine, crop, region.id)

\* extract_text, the same loop in every adapter: for region in regions:
\* results.append(self.extract_from_region(image, region)).  An exception
\* in one iteration leaves the loop and the method.
ExtractTextOf(engine, regions, model) ==
    IF \E k \in 1..Len(regions) : CropRaises(engine, model[k])
    THEN [raised |-> TRUE, results |-> <<>>]
    ELSE [raised |-> FALSE,
          results |-> [k \in 1..Len(regions) |->
                          ExtractFromRegion(engine, regions[k], model[k])]]

(***************************************************************************)
(* SpecEngine: extract_text of every adapter on bounded region lists and   *)
(* model outputs.                                                          *)
(***************************************************************************)
EngineNames ==
    {"easyocr", "surya", "paddleocr", "tesseract", "trocr", "got_ocr", "mineru"}

\* Texts a model may return for one item: empty, plain, with surrounding
\* white space, with a line break inside.
RawTexts == {<<>>, <<"a">>, <<"b", " ">>, <<"a", "\n", "b">>}

\* (conf, line_num) of an item.  Only tesseract reports a line number and
\* the "no text" confidence -1.
RawMeta(engine) ==
    IF engine = "tesseract" THEN {<<90, 1>>, <<80, 2>>, <<0 - 1, 1>>} ELSE {<<90, 1>>}

RawItems(engine) ==
    {[text |-> t, conf |-> m[1], line_num |-> m[2]] : t \in RawTexts, m \in RawMeta(engine)}

Region(id, type, x2, y2) ==
    [id |-> id, type |-> type, confidence |-> 100,
     bbox |-> [x1 |-> 0, y1 |-> 0, x2 |-> x2, y2 |-> y2]]

\* The region lists the pipeline hands to extract_text: the detector's
\* regions, with ids 1..r, or the single full-page region with id 0.
RegionLists ==
    {[k \in 1..r |-> Region(k, "text", 10, 10)] : r \in 0..MaxEngineRegions}
        \cup {<<Region(0, "full_page", 20, 30)>>}

\* What the model does on the crops of r regions: at most MaxRawItems items
\* over all crops, and any of the calls may fail.
CropInputs(engine, r) ==
    UNION {{[k \in 1..r |->
                [fails |-> k \in failing,
                 items |-> LET idx == {i \in 1..Len(flat) : f[i] = k}
                               first == IF idx = {} THEN 0
                                        ELSE CHOOSE i \in idx : \A j \in idx : i <= j
                           IN  [n \in 1..Cardinality(idx) |-> flat[first + n - 1]]]]
            : f \in Splits(Len(flat), r), failing \in SUBSET (1..r)}
           : flat \in UNION {[1..n -> RawItems(engine)] : n \in 0..MaxRawItems}}

InitEngine ==
    /\ eEngine \in EngineNames
    /\ eRegions \in RegionLists
    /\ eModel \in CropInputs(eEngine, Len(eRegions))
    /\ eResults = <<>>
    /\ eRaised = FALSE
    /\ epc = "input"
    /\ RunIdle
    /\ MatchIdle
    /\ AccIdle
    /\ FullTextIdle
    /\ DetectIdle
    /\ SimIdle
    /\ RestIdle

ExtractTextCall ==
    /\ epc = "input"
    /\ LET out == ExtractTextOf(eEngine, eRegions, eModel)
       IN  /\ eResults' = out.results
           /\ eRaised' = out.raised
           /\ epc' = IF out.raised THEN "raised" ELSE "returned"
    /\ UNCHANGED <<eEngine, eRegions, eModel, runVars, matchVars, accVars,
                   fullTextVars, detectVars, simVars, cancelVars, restVars>>

NextEngine == ExtractTextCall

SpecEngine == InitEngine /\ [][NextEngine]_vars

(***************************************************************************)
(* The layout detectors (processing/layout): detect builds one Region per  *)
(* raw detection with id = i + 1, sorts the list, and re-assigns the ids.  *)
(***************************************************************************)
DetectedRegion(id, det) ==
    [id |-> id, type |-> "text", confidence |-> det.confidence,
     bbox |-> [x1 |-> det.x1, y1 |-> det.y1, x2 |-> det.x1 + 10, y2 |-> det.y1 + 10]]

\* for i, ... in enumerate(...): regions.append(Region(id=i + 1, ...))
BuildRegions(raw) == [k \in 1..Len(raw) |-> DetectedRegion(k, raw[k])]

\* The sort key order: doclayout_yolo sorts by confidence, descending;
\* doctr and surya by (bbox.y1, bbox.x1), ascending.
SortsBefore(detector, a, b) ==
    IF detector = "doclayout_yolo" THEN a.confidence > b.confidence
    ELSE \/ a.bbox.y1 < b.bbox.y1
         \/ a.bbox.y1 = b.bbox.y1 /\ a.bbox.x1 < b.bbox.x1

\* list.sort is stable: regions with equal keys keep their order.
SortRegions(detector, regions) ==
    LET n == Len(regions)
        Precedes(j, i) ==
            \/ SortsBefore(detector, regions[j], regions[i])
            \/ /\ ~SortsBefore(detector, regions[i], regions[j])
               /\ j < i
        Rank(i) == 1 + Cardinality({j \in 1..n : j # i /\ Precedes(j, i)})
    IN  [k \in 1..n |-> regions[CHOOSE i \in 1..n : Rank(i) = k]]

\* Mutant of ReassignIds: the ids given before the sort are kept.
KeepIds(regions) == regions

\* "Re-assign IDs after sorting": region.id = i + 1.
ReassignIds(regions) == [k \in 1..Len(regions) |-> [regions[k] EXCEPT !.id = k]]

DetectOf(detector, raw) == ReassignIds(SortRegions(detector, BuildRegions(raw)))

(***************************************************************************)
(* SpecDetect: detect of every detector on bounded raw detections.         *)
(***************************************************************************)
DetectorNames == {"doclayout_yolo", "doctr", "surya"}

RawDetections ==
    {[x1 |-> x, y1 |-> y, confidence |-> c] : x \in {0, 5}, y \in {0, 5}, c \in {50, 90}}

InitDetect ==
    /\ dDetector \in DetectorNames
    /\ dRaw \in UNION {[1..n -> RawDetections] : n \in 0..MaxDetections}
    /\ dRegions = <<>>
    /\ dpc = "input"
    /\ RunIdle
    /\ MatchIdle
    /\ AccIdle
    /\ EngineIdle
    /\ FullTextIdle
    /\ SimIdle
    /\ RestIdle

DetectCall ==
    /\ dpc = "input"
    /\ dRegions' = DetectOf(dDetector, dRaw)
    /\ dpc' = "returned"
    /\ UNCHANGED <<dDetector, dRaw, runVars, matchVars, accVars, engineVars,
                   fullTextVars, simVars, cancelVars, restVars>>

NextDetect == DetectCall

SpecDetect == InitDetect /\ [][NextDetect]_vars

(***************************************************************************)
(* SpecSim: the matcher's similarity on every pair of bounded strings.     *)
(***************************************************************************)
Letters == {"a", "A", "b"}
Strings == UNION {[1..n -> Letters] : n \in 0..MaxStringLen}

InitSim ==
    /\ sExpected \in Strings
    /\ sText \in Strings
    /\ sScore = Zero
    /\ spc = "input"
    /\ RunIdle
    /\ MatchIdle
    /\ AccIdle
    /\ EngineIdle
    /\ FullTextIdle
    /\ DetectIdle
    /\ RestIdle

SimilarityCall ==
    /\ spc = "input"
    /\ sScore' = Similarity(sExpected, sText)
    /\ spc' = "scored"
    /\ UNCHANGED <<sExpected, sText, runVars, matchVars, accVars, engineVars,
                   fullTextVars, detectVars, cancelVars, restVars>>

NextSim == SimilarityCall

SpecSim == InitSim /\ [][NextSim]_vars

(***************************************************************************)
(* _load_model of the adapter classes.  Each class keeps what it has       *)
(* constructed in class attributes shared by all its instances:            *)
(*   one attribute, tested and set      easyocr, paddleocr, mineru,        *)
(*                                      doclayout_yolo, doctr, surya layout*)
(*   _processor tested; _processor and  trocr, got_ocr                     *)
(*   then _model set                                                       *)
(*   _recognition_predictor tested;     surya ocr                          *)
(*   _foundation_predictor and then                                        *)
(*   _recognition_predictor set                                            *)
(* TesseractEngine has no _load_model and constructs nothing.              *)
(***************************************************************************)
LoadingClasses ==
    {"EasyOCREngine", "SuryaOCREngine", "PaddleOCREngine", "TrOCREngine",
     "GotOCREngine", "MinerUEngine", "DocLayoutYOLODetector",
     "DocTRLayoutDetector", "SuryaLayoutDetector"}

\* Number of class attributes _load_model fills, and the one it tests.
Slots(class) ==
    IF class \in {"SuryaOCREngine", "TrOCREngine", "GotOCREngine"} THEN 2 ELSE 1
GuardSlot(class) == IF class = "SuryaOCREngine" THEN 2 ELSE 1

\* Mutant of IsCached: the test of the class attribute always fails.
NeverCached(class, cache) == FALSE

\* `if Class._attr is None:` is false.
IsCached(class, cache) == cache[GuardSlot(class)]

\* The constructor calls of one _load_model; ctor[k] says whether the k-th
\* constructor returns (TRUE) or raises.  The result is the new cache, the
\* new call counts and the outcome.
LoadModelOf(class, cache, runs, ctor) ==
    IF IsCached(class, cache)
    THEN [cache |-> cache, runs |-> runs, outcome |-> "cached"]
    ELSE IF ~ctor[1]
    THEN [cache |-> cache, runs |-> <<runs[1] + 1, runs[2]>>, outcome |-> "raised"]
    ELSE IF Slots(class) = 1
    THEN [cache |-> <<TRUE, cache[2]>>, runs |-> <<runs[1] + 1, runs[2]>>,
          outcome |-> "constructed"]
    ELSE IF ~ctor[2]
    THEN [cache |-> <<TRUE, cache[2]>>, runs |-> <<runs[1] + 1, runs[2] + 1>>,
          outcome |-> "raised"]
    ELSE [cache |-> <<TRUE, TRUE>>, runs |-> <<runs[1] + 1, runs[2] + 1>>,
          outcome |-> "constructed"]

(***************************************************************************)
(* SpecLoad: sequential _load_model calls (one per detect / per crop) on   *)
(* instances of one adapter class, in one process.                         *)
(***************************************************************************)
InitLoad ==
    /\ lAdapter \in LoadingClasses
    /\ lCache = <<FALSE, FALSE>>
    /\ lCtorRuns = <<0, 0>>
    /\ lCalls = 0
    /\ lInstance = 0
    /\ lLast = "none"
    /\ GenIdle
    /\ OtherIdle
    /\ RunIdle
    /\ MatchIdle
    /\ AccIdle
    /\ EngineIdle
    /\ FullTextIdle
    /\ DetectIdle
    /\ SimIdle

LoadModel ==
    /\ lCalls < MaxLoads
    /\ \E instance \in 1..MaxInstances, ctor \in [1..2 -> BOOLEAN] :
          LET out == LoadModelOf(lAdapter, lCache, lCtorRuns, ctor)
          IN  /\ lCache' = out.cache
              /\ lCtorRuns' = out.runs
              /\ lLast' = out.outcome
              /\ lInstance' = instance
    /\ lCalls' = lCalls + 1
    /\ UNCHANGED <<lAdapter, genVars, otherVars, runVars, matchVars, accVars, engineVars,
                   fullTextVars, detectVars, simVars, cancelVars>>

NextLoad == LoadModel

SpecLoad == InitLoad /\ [][NextLoad]_vars

\* All class attributes of the class hold a constructed object: a load has
\* succeeded.
LoadSucceeded == \A k \in 1..Slots(lAdapter) : lCache[k]

\* C19: once a first load of an adapter class has succeeded, no later
\* _load_model call, on whatever instance, calls a constructor again, and
\* each returns the cached object; so a class whose loads never failed
\* has called each constructor at most once.
C19_LoadedOnce ==
    [][LoadSucceeded =>
          /\ lCtorRuns' = lCtorRuns
          /\ lCache' = lCache
          /\ lCalls' # lCalls => lLast' = "cached"]_vars

\* C19 witness: a class with two attributes was loaded, each constructor
\* having run once, and the last of MaxLoads calls, on instance 2, was
\* served from the cache.
C19_Witness ==
    /\ lAdapter = "GotOCREngine"
    /\ lCalls = MaxLoads
    /\ lCtorRuns = <<1, 1>>
    /\ lLast = "cached"
    /\ lInstance = 2

\* C29: every _load_model call that returns normally returns components
\* that are all initialised, whatever loads failed before it; and after a
\* failed load the test of the class attribute fails again, so that the
\* next call retries the load.
C29_NoHalfInitialisedModel ==
    /\ lLast \in {"cached", "constructed"} =>
           \A k \in 1..Slots(lAdapter) : lCache[k]
    /\ lLast = "raised" => ~IsCached(lAdapter, lCache)

(***************************************************************************)
(* The synthetic document generator: the value chosen for each field       *)
(* mapping, the text drawn and the field_values recorded.                  *)
(***************************************************************************)
\* The pools by field type; of each pool the first two values.
FIELD_TYPE_DATA ==
    [t \in {"numeric_short", "text_short", "sentence", "full_name", "day_month",
            "2_digit_year", "4_digit_year"} |->
        CASE t = "numeric_short" -> <<"123", "456">>
          [] t = "text_short" -> <<"TX", "CA">>
          [] t = "sentence" ->
                 <<"The defendant failed to appear at the scheduled hearing.",
                   "Plaintiff requests summary judgment on all counts.">>
          [] t = "full_name" -> <<"John Smith", "Jane Doe">>
          [] t = "day_month" -> <<"January 15", "February 20">>
          [] t = "2_digit_year" -> <<"20", "21">>
          [] t = "4_digit_year" -> <<"2020", "2021">>]

\* The legacy pools by name, as (key, pool) pairs in the order of the dict.
DEFAULT_SYNTHETIC_DATA ==
    <<<<"defendant_name", FIELD_TYPE_DATA["full_name"]>>,
      <<"plaintiff_name", <<"ABC Corporation", "XYZ Inc.">>>>,
      <<"case_number", <<"2024-CV-001234", "2024-CV-005678">>>>,
      <<"date", <<"January 15, 2024", "February 20, 2024">>>>,
      <<"default", FIELD_TYPE_DATA["text_short"]>>>>

\* The names of the mappings.
GenFieldNames == {"defendant_name", "Hearing Date"}

\* `key in field_name.lower()` on the names above.
KeyInLower(key, field_name) ==
    \/ key = "defendant_name" /\ field_name = "defendant_name"
    \/ key = "date" /\ field_name = "Hearing Date"
    \/ key = "case_number" /\ field_name = "case_number date"
    \/ key = "date" /\ field_name = "case_number date"

\* The values random.choice(values) can return.
Choices(values) == {values[k] : k \in 1..Len(values)}

\* The legacy fallback of _get_synthetic_value: the pool of the first key
\* of DEFAULT_SYNTHETIC_DATA the lower-cased name contains, the default
\* pool when it contains none.
LegacyFallback(field_name) ==
    LET hits == {k \in 1..Len(DEFAULT_SYNTHETIC_DATA) :
                     KeyInLower(DEFAULT_SYNTHETIC_DATA[k][1], field_name)}
    IN  IF hits # {}
        THEN Choices(DEFAULT_SYNTHETIC_DATA[
                         CHOOSE k \in hits : \A h \in hits : k <= h][2])
        ELSE Choices(DEFAULT_SYNTHETIC_DATA[5][2])

\* Mutant of GetSyntheticValue: the pool of the field type is consulted
\* before the custom options.
GetSyntheticValuePoolFirst(field_name, custom_options, field_type) ==
    IF field_type # None /\ field_type \in DOMAIN FIELD_TYPE_DATA
    THEN Choices(FIELD_TYPE_DATA[field_type])
    ELSE IF custom_options # <<>>
    THEN Choices(custom_options)
    ELSE LegacyFallback(field_name)

\* _get_synthetic_value: the values it can return.  field_type is None
\* when the caller passes none.
GetSyntheticValue(field_name, custom_options, field_type) ==
    IF custom_options # <<>>
    THEN Choices(custom_options)
    ELSE IF field_type # None /\ field_type \in DOMAIN FIELD_TYPE_DATA
    THEN Choices(FIELD_TYPE_DATA[field_type])
    ELSE LegacyFallback(field_name)

\* custom_options of generate_filled_form for one field; the empty list
\* stands for None as well, both being false in `if custom_options:`.
CustomOptions(field_value_options, field_name) ==
    IF /\ field_value_options.supplied
       /\ field_name \in field_value_options.names
    THEN field_value_options.lists[field_name]
    ELSE <<>>

\* field_values after the loop of generate_filled_form: a dict, in which a
\* later assignment to a name replaces an earlier one.
GeneratedFieldValues(field_mappings, values) ==
    {<<nm, values[CHOOSE i \in 1..Len(field_mappings) :
                     /\ field_mappings[i].name = nm
                     /\ \A j \in 1..Len(field_mappings) :
                           field_mappings[j].name = nm => j <= i]>>
     : nm \in {field_mappings[i].name : i \in 1..Len(field_mappings)}}

\* The field types of the mappings (FieldType; text_short is the default).
GenFieldTypes == {"numeric_short", "text_short", "full_name"}

\* The lists a caller supplies for a field name.
OverrideLists == {<<>>, <<"Alice">>, <<"Alice", "Bob">>}

\* form.field_mappings: a non-empty list (the route rejects an empty one)
\* whose names nothing requires to differ.
GenMappingInputs ==
    UNION {[1..n -> [name : GenFieldNames, field_type : GenFieldTypes]]
           : n \in 1..MaxGenMappings}

\* field_value_options: None, or a dict from some field names to lists
\* (names: its keys; lists: the list under each key).
GenOptionInputs ==
    {[supplied |-> FALSE, names |-> {}, lists |-> [nm \in GenFieldNames |-> <<>>]]}
        \cup {[supplied |-> TRUE, names |-> S,
               lists |-> [nm \in GenFieldNames |-> IF nm \in S THEN o[nm] ELSE <<>>]]
              : S \in SUBSET GenFieldNames, o \in [GenFieldNames -> OverrideLists]}

\* Every value a pool or an override list holds.
SyntheticValues ==
    UNION ({Choices(FIELD_TYPE_DATA[t]) : t \in DOMAIN FIELD_TYPE_DATA}
           \cup {Choices(DEFAULT_SYNTHETIC_DATA[k][2])
                 : k \in 1..Len(DEFAULT_SYNTHETIC_DATA)}
           \cup {Choices(l) : l \in OverrideLists})

(***************************************************************************)
(* SpecGen: generate_filled_form on a template's mappings, and the         *)
(* SyntheticDocument generate_batch builds from what it returns.           *)
(***************************************************************************)
InitGen ==
    /\ gMappings \in GenMappingInputs
    /\ gOptions \in GenOptionInputs
    /\ gDrawn = <<>>
    /\ gFieldValues = {}
    /\ gpc = "input"
    /\ LoadIdle
    /\ OtherIdle
    /\ RunIdle
    /\ MatchIdle
    /\ AccIdle
    /\ EngineIdle
    /\ FullTextIdle
    /\ DetectIdle
    /\ SimIdle

GenerateFilledForm ==
    /\ gpc = "input"
    /\ \E values \in [1..Len(gMappings) -> SyntheticValues] :
          /\ \A i \in 1..Len(gMappings) :
                values[i] \in GetSyntheticValue(
                                  gMappings[i].name,
                                  CustomOptions(gOptions, gMappings[i].name),
                                  gMappings[i].field_type)
          /\ gDrawn' = values
          /\ gFieldValues' = GeneratedFieldValues(gMappings, values)
    /\ gpc' = "returned"
    /\ UNCHANGED <<gMappings, gOptions, loadVars, otherVars, runVars, matchVars, accVars,
                   engineVars, fullTextVars, detectVars, simVars, cancelVars>>

NextGen == GenerateFilledForm

SpecGen == InitGen /\ [][NextGen]_vars

\* C20: for every generated document and every field mapping, the value
\* recorded in field_values under the mapping's name is the value drawn
\* for that mapping and belongs to the pool selected for it: the caller's
\* override list for the name when one is supplied and non-empty,
\* otherwise the pool of the mapping's field type; no value outside the
\* selected pool is recorded.
C20_GroundTruthFromSelectedPool ==
    gpc = "returned" =>
        \A i \in 1..Len(gMappings) :
            LET field == gMappings[i]
                override == IF gOptions.supplied /\ field.name \in gOptions.names
                            THEN gOptions.lists[field.name]
                            ELSE <<>>
                pool == IF override # <<>>
                        THEN Choices(override)
                        ELSE Choices(FIELD_TYPE_DATA[field.field_type])
            IN  /\ \E entry \in gFieldValues : entry[1] = field.name
                /\ \A entry \in gFieldValues :
                      entry[1] = field.name =>
                          /\ entry[2] = gDrawn[i]
                          /\ entry[2] \in pool

\* C30: whatever the list of field mappings, two mappings of one name
\* included, every value drawn onto the image is in the returned
\* field_values under the name of its mapping, and field_values has one
\* entry per mapping drawn.
C30_EveryDrawnValueRecorded ==
    gpc = "returned" =>
        /\ \A i \in 1..Len(gMappings) : <<gMappings[i].name, gDrawn[i]>> \in gFieldValues
        /\ Cardinality(gFieldValues) = Len(gMappings)

(***************************************************************************)
(* SpecValue: _get_synthetic_value called on a field name, a list of       *)
(* custom options and a field type, each of which a caller may leave out.  *)
(***************************************************************************)
\* The field names of the calls: with one legacy key, with two, with none.
ValueFieldNames == GenFieldNames \cup {"case_number date", "Court"}

\* The field types of the calls: left out, not a key of the pools, a key.
ValueFieldTypes == GenFieldTypes \cup {None, "ssn"}

InitValue ==
    /\ vName \in ValueFieldNames
    /\ vOptions \in OverrideLists
    /\ vType \in ValueFieldTypes
    /\ vValue = None
    /\ vpc = "input"
    /\ VerifyIdle
    /\ ScanIdle
    /\ LoadIdle
    /\ GenIdle
    /\ RunIdle
    /\ MatchIdle
    /\ AccIdle
    /\ EngineIdle
    /\ FullTextIdle
    /\ DetectIdle
    /\ SimIdle

GetSyntheticValueCall ==
    /\ vpc = "input"
    /\ vValue' \in GetSyntheticValue(vName, vOptions, vType)
    /\ vpc' = "returned"
    /\ UNCHANGED <<vName, vOptions, vType, verifyVars, scanVars, loadVars, genVars, runVars, matchVars,
                   accVars, engineVars, fullTextVars, detectVars, simVars, cancelVars>>

NextValue == GetSyntheticValueCall

SpecValue == InitValue /\ [][NextValue]_vars

\* The legacy keys the lower-cased field name contains.
LegacyKeysIn(field_name) ==
    {k \in 1..Len(DEFAULT_SYNTHETIC_DATA) :
        KeyInLower(DEFAULT_SYNTHETIC_DATA[k][1], field_name)}

\* The value comes from the legacy data: from the pool of the first key
\* the name contains, from the default pool when it contains none.
FromLegacy(field_name, value) ==
    IF LegacyKeysIn(field_name) = {}
    THEN value \in Choices(FIELD_TYPE_DATA["text_short"])
    ELSE \E k \in LegacyKeysIn(field_name) :
            /\ \A h \in LegacyKeysIn(field_name) : k <= h
            /\ value \in Choices(DEFAULT_SYNTHETIC_DATA[k][2])

\* C21 (as amended): the value is taken from the caller's list of options
\* when that list is supplied and non-empty; otherwise from the pool of the
\* field type when the type is a key of the pools; otherwise from the
\* legacy name-substring data.
C21_SourcePriority ==
    vpc = "returned" =>
        IF vOptions # <<>>
        THEN vValue \in Choices(vOptions)
        ELSE IF vType \in DOMAIN FIELD_TYPE_DATA
        THEN vValue \in Choices(FIELD_TYPE_DATA[vType])
        ELSE FromLegacy(vName, vValue)

\* C21 as stated: the pool of the field type first, then the caller's list
\* of options, then the legacy name-substring data.
C21_AsStated ==
    vpc = "returned" =>
        IF vType \in DOMAIN FIELD_TYPE_DATA
        THEN vValue \in Choices(FIELD_TYPE_DATA[vType])
        ELSE IF vOptions # <<>>
        THEN vValue \in Choices(vOptions)
        ELSE FromLegacy(vName, vValue)

\* C21 witness: a call with options and a known field type returned one of
\* the options, which is in no pool.
C21_Witness ==
    /\ vpc = "returned"
    /\ vOptions = <<"Alice", "Bob">>
    /\ vType = "numeric_short"
    /\ vValue = "Bob"

(***************************************************************************)
(* The verification route: verify_document on a stored result, by fields   *)
(* (synthetic documents) or by text regions (handwritten documents).       *)
(***************************************************************************)
\* verified_accuracy of a result nobody has verified (None).
NoAccuracy == Frac(0 - 1, 1)

\* What a request says about a field or a region: verification_status,
\* corrected_value, is_important.
Verdicts ==
    {<<"verified", None, TRUE>>, <<"verified", None, FALSE>>,
     <<"corrected", "x", TRUE>>, <<"unverified", None, FALSE>>}

\* The field of the given name as _match_fields created it.
CreatedField(name) ==
    ExtractedField(name, <<"a">>,
                   [match |-> <<"A", "b">>, score |-> Frac(1, 2), confidence |-> Frac(9, 10)])

\* A field as an earlier verification left it.
VerifiedField(field, verdict) ==
    [field EXCEPT !.verification_status = verdict[1],
                  !.corrected_value = verdict[2],
                  !.is_important = verdict[3]]

\* A text region as process_document_full_text stored it.
StoredRegion == [text |-> "t", confidence |-> Frac(9, 10)]

\* existing_regions[i] after the three assignments of the handwritten path.
VerifiedRegion(region, verdict) ==
    [text |-> region.text,
     confidence |-> region.confidence,
     is_important |-> verdict[3],
     verification_status |-> verdict[1],
     corrected_value |-> verdict[2]]

\* The region appended for an entry of added_regions.
AddedRegion(added) ==
    [text |-> added.text,
     confidence |-> One,
     is_important |-> TRUE,
     verification_status |-> "verified",
     corrected_value |-> None,
     user_added |-> TRUE]

\* result.extracted_fields of the stored results: fields of distinct names,
\* each as created or as verified before.
StoredFieldLists ==
    UNION {{[i \in 1..n |-> IF v[i] = <<>> THEN CreatedField(FieldNames[i])
                            ELSE VerifiedField(CreatedField(FieldNames[i]), v[i])]
            : v \in [1..n -> Verdicts \cup {<<>>}]}
           : n \in 0..MaxVerifyFields}

\* The result get_result_by_document finds, or none.
NoResult ==
    [exists |-> FALSE, extracted_fields |-> <<>>, overall_accuracy |-> Zero,
     text_regions |-> <<>>, verified_accuracy |-> NoAccuracy, verified_by |-> None,
     verified_by_name |-> None, verified_at |-> None]

StoredResults ==
    {NoResult}
        \cup {[NoResult EXCEPT !.exists = TRUE, !.extracted_fields = fields,
                               !.overall_accuracy = CalculateAccuracy(fields)]
              : fields \in StoredFieldLists}
        \cup {[NoResult EXCEPT !.exists = TRUE, !.text_regions = regions]
              : regions \in {<<>>, <<StoredRegion>>}}

\* request.fields: entries that may name a field twice or name none of the
\* result's fields.
RequestFieldNames == {FieldNames[1], FieldNames[2], FieldNames[Len(FieldNames)]}

RequestFields ==
    UNION {[1..n -> [field_name : RequestFieldNames, verdict : Verdicts]]
           : n \in 0..MaxRequestFields}

\* request.text_regions with request.added_regions, of the handwritten path.
RequestRegions ==
    {[text_regions |-> t, added_regions |-> a]
     : t \in {<<>>} \cup {<<[region_index |-> k, verdict |-> v]>>
                          : k \in {0, 1}, v \in Verdicts},
       a \in {<<>>, <<[text |-> "z"]>>}}

VerifyRequests ==
    {[fields |-> f, given |-> FALSE, text_regions |-> <<>>, added_regions |-> <<>>]
     : f \in RequestFields}
        \cup {[fields |-> <<>>, given |-> TRUE, text_regions |-> r.text_regions,
               added_regions |-> r.added_regions] : r \in RequestRegions}

\* The users: the second has no user record, so no email.
VerifyUsers == {"u1", "u2"}
EmailOf(user) == IF user = "u1" THEN "u1@example.org" ELSE ""

\* The first entry of request.fields with the field's name, 0 for none.
FindVerification(fields, field_name) ==
    LET hits == {k \in 1..Len(fields) : fields[k].field_name = field_name}
    IN  IF hits = {} THEN 0 ELSE CHOOSE k \in hits : \A h \in hits : k <= h

\* Mutant of UpdatedFields: a field the request does not name is dropped.
UpdatedFieldsNamedOnly(extracted_fields, fields) ==
    LET named(f) == FindVerification(fields, f.field_name) # 0
        kept == SelectSeq(extracted_fields, named)
    IN  [i \in 1..Len(kept) |->
            VerifiedField(kept[i],
                          fields[FindVerification(fields, kept[i].field_name)].verdict)]

\* updated_fields of the synthetic path.
UpdatedFields(extracted_fields, fields) ==
    [i \in 1..Len(extracted_fields) |->
        LET k == FindVerification(fields, extracted_fields[i].field_name)
        IN  IF k # 0
            THEN [field_name |-> extracted_fields[i].field_name,
                  expected_value |-> extracted_fields[i].expected_value,
                  extracted_value |-> extracted_fields[i].extracted_value,
                  confidence |-> extracted_fields[i].confidence,
                  match_score |-> extracted_fields[i].match_score,
                  is_important |-> fields[k].verdict[3],
                  verification_status |-> fields[k].verdict[1],
                  corrected_value |-> fields[k].verdict[2]]
            ELSE extracted_fields[i]]

\* r.get(key) is None on a region that lacks the key.
IsVerified(f) == "verification_status" \in DOMAIN f /\ f.verification_status = "verified"
IsImportantRegion(r) == "is_important" \in DOMAIN r /\ r.is_important

\* verified_accuracy of the synthetic path.
VerifiedAccuracy(updated_fields) ==
    LET important == ImportantOrAll(updated_fields)
    IN  IF important = <<>> THEN Zero
        ELSE Frac(Len(SelectSeq(important, IsVerified)), Len(important))

\* existing_regions after the two loops of the handwritten path.
UpdatedRegions(existing_regions, req) ==
    LET updated ==
            [i \in 1..Len(existing_regions) |->
                LET hits == {k \in 1..Len(req.text_regions) :
                                 req.text_regions[k].region_index = i - 1}
                IN  IF hits = {} THEN existing_regions[i]
                    ELSE VerifiedRegion(
                             existing_regions[i],
                             req.text_regions[
                                 CHOOSE k \in hits : \A h \in hits : h <= k].verdict)]
    IN  updated \o [i \in 1..Len(req.added_regions) |->
                       AddedRegion(req.added_regions[i])]

\* verified_accuracy of the handwritten path.
VerifiedAccuracyRegions(existing_regions) ==
    LET important == SelectSeq(existing_regions, IsImportantRegion)
    IN  IF important = <<>> THEN Zero
        ELSE Frac(Len(SelectSeq(important, IsVerified)), Len(important))

\* verify_document: the response and the stored result afterwards.
VerifyDocumentOf(result, req, user) ==
    IF ~result.exists
    THEN [response |-> "404", result |-> result]
    ELSE IF req.given
    THEN LET regions == UpdatedRegions(result.text_regions, req)
         IN  [response |-> "200",
              result |-> [result EXCEPT !.text_regions = regions,
                                        !.verified_accuracy = VerifiedAccuracyRegions(regions),
                                        !.verified_by = user,
                                        !.verified_by_name = EmailOf(user),
                                        !.verified_at = "utcnow"]]
    ELSE LET updated == UpdatedFields(result.extracted_fields, req.fields)
         IN  [response |-> "200",
              result |-> [result EXCEPT !.extracted_fields = updated,
                                        !.verified_accuracy = VerifiedAccuracy(updated),
                                        !.verified_by = user,
                                        !.verified_by_name = EmailOf(user),
                                        !.verified_at = "utcnow"]]

(***************************************************************************)
(* SpecVerify: one verify_document request on a stored result.             *)
(***************************************************************************)
InitVerify ==
    /\ rResult \in StoredResults
    /\ rRequest = None
    /\ rResponse = "none"
    /\ rpc = "input"
    /\ ValueIdle
    /\ ScanIdle
    /\ LoadIdle
    /\ GenIdle
    /\ RunIdle
    /\ MatchIdle
    /\ AccIdle
    /\ EngineIdle
    /\ FullTextIdle
    /\ DetectIdle
    /\ SimIdle

VerifyDocument ==
    /\ rpc = "input"
    /\ \E req \in VerifyRequests, user \in VerifyUsers :
          LET out == VerifyDocumentOf(rResult, req, user)
          IN  /\ rResult' = out.result
              /\ rResponse' = out.response
              /\ rRequest' = req
    /\ rpc' = "returned"
    /\ UNCHANGED <<valueVars, scanVars, loadVars, genVars, runVars, matchVars, accVars,
                   engineVars, fullTextVars, detectVars, simVars, cancelVars>>

NextVerify == VerifyDocument

SpecVerify == InitVerify /\ [][NextVerify]_vars

\* The data of a field that the matcher computed.
MatcherData(f) ==
    <<f.field_name, f.expected_value, f.extracted_value, f.confidence, f.match_score>>

\* The verification data of a field.
VerificationData(f) == <<f.is_important, f.verification_status, f.corrected_value>>

\* C22: a verify_document request by fields keeps the number and the order
\* of the result's fields and, of every field, the name, the expected and
\* the extracted value, the confidence and the match score; it changes the
\* verification data only of fields the request names; and it leaves
\* overall_accuracy as it was.
C22_VerificationFrame ==
    [][(rpc' = "returned" /\ ~rRequest'.given) =>
          /\ Len(rResult'.extracted_fields) = Len(rResult.extracted_fields)
          /\ \A i \in 1..Len(rResult.extracted_fields) :
                LET old == rResult.extracted_fields[i]
                    new == rResult'.extracted_fields[i]
                IN  /\ MatcherData(new) = MatcherData(old)
                    /\ VerificationData(new) # VerificationData(old) =>
                          \E k \in 1..Len(rRequest'.fields) :
                              rRequest'.fields[k].field_name = old.field_name
          /\ rResult'.overall_accuracy = rResult.overall_accuracy
          /\ rResult'.text_regions = rResult.text_regions
          /\ rResult'.exists = rResult.exists]_vars

\* C22 witness: of a result with two fields, a request naming the second
\* one corrected it and left the first one as the matcher created it.
C22_Witness ==
    /\ rpc = "returned"
    /\ rResponse = "200"
    /\ ~rRequest.given
    /\ Len(rResult.extracted_fields) = 2
    /\ rResult.extracted_fields[1] = CreatedField(FieldNames[1])
    /\ rResult.extracted_fields[2] =
           VerifiedField(CreatedField(FieldNames[2]), <<"corrected", "x", TRUE>>)
    /\ FEq(rResult.verified_accuracy, Zero)
    /\ FEq(rResult.overall_accuracy, Frac(1, 2))

(***************************************************************************)
(* The scan simulator: apply_scan_effects, with each Pillow / numpy call   *)
(* as what it does to the size and the mode of the image.                  *)
(***************************************************************************)
\* The presets; angles in tenths of a degree, radii in tenths of a pixel,
\* factors in hundredths.
PRESETS ==
    [p \in {"light", "medium", "heavy"} |->
        CASE p = "light" ->
                 [rotation_range |-> 15, noise_amount |-> 3, blur_radius |-> 3,
                  brightness_range |-> <<95, 105>>, contrast_range |-> <<95, 105>>,
                  paper_tone |-> <<245, 240, 230>>]
          [] p = "medium" ->
                 [rotation_range |-> 30, noise_amount |-> 8, blur_radius |-> 7,
                  brightness_range |-> <<85, 115>>, contrast_range |-> <<85, 115>>,
                  paper_tone |-> <<235, 228, 215>>]
          [] p = "heavy" ->
                 [rotation_range |-> 50, noise_amount |-> 15, blur_radius |-> 12,
                  brightness_range |-> <<75, 125>>, contrast_range |-> <<75, 130>>,
                  paper_tone |-> <<225, 215, 200>>]]

\* PRESETS.get(preset, PRESETS["medium"])
PresetParams(preset) ==
    IF preset \in DOMAIN PRESETS THEN PRESETS[preset] ELSE PRESETS["medium"]

Abs(n) == IF n < 0 THEN 0 - n ELSE n

PilImage(mode, width, height) == [mode |-> mode, width |-> width, height |-> height]

\* image.copy().convert("RGB")
ConvertRGB(image) == PilImage("RGB", image.width, image.height)

\* Image.new("RGB", img.size, tone)
NewLayer(img) == PilImage("RGB", img.width, img.height)

\* Image.blend(im1, im2, alpha): of the size and the mode of both images.
Blend(im1, im2) == PilImage(im1.mode, im1.width, im1.height)

\* Mutant of Rotate: the canvas grows to hold the rotated image although
\* expand is False.
RotateExpanded(img, angle, expand) ==
    IF angle = 0 THEN img
    ELSE PilImage(img.mode, img.width + 1, img.height + 1)

\* img.rotate(angle, expand=...): with expand the canvas grows to hold the
\* whole rotated image, without it the size is kept.
Rotate(img, angle, expand) ==
    IF expand /\ angle # 0
    THEN PilImage(img.mode, img.width + 1, img.height + 1)
    ELSE img

\* ImageEnhance.Brightness / Contrast (img).enhance(factor)
Enhance(img, factor) == img

\* img.filter(ImageFilter.GaussianBlur(radius))
GaussianBlur(img, radius) == img

\* np.array(img).shape of an RGB image: rows, columns, channels.
ArrayShape(img) == <<img.height, img.width, 3>>

\* Image.fromarray(arr) of an array of that shape.
FromArray(shape) == PilImage("RGB", shape[2], shape[1])

\* apply_scan_effects with the values random drew.
ApplyScanEffects(image, preset, angle, brightness, contrast, blur) ==
    LET params == PresetParams(preset)
        base == ConvertRGB(image)
        toned == Blend(base, NewLayer(base))
        rotated == Rotate(toned, angle, FALSE)
        bright == Enhance(rotated, brightness)
        contrasted == Enhance(bright, contrast)
        blurred == IF params.blur_radius > 0
                   THEN GaussianBlur(contrasted, blur) ELSE contrasted
        noisy == IF params.noise_amount > 0
                 THEN FromArray(ArrayShape(blurred)) ELSE blurred
    IN  noisy

\* The presets asked for: the three names, a name that is none of them.
PresetNames == {"light", "medium", "heavy", "extreme"}

\* The input images.
ImageModes == {"RGB", "L", "RGBA"}
ScanImages ==
    {PilImage(m, w, h) : m \in ImageModes, w \in 1..MaxImageSide, h \in 1..MaxImageSide}

\* The values random.uniform(lo, hi) can return: the ends and the middle.
Uniform(lo, hi) == {lo, (lo + hi) \div 2, hi}

(***************************************************************************)
(* SpecScan: apply_scan_effects on an image under a preset name.           *)
(***************************************************************************)
InitScan ==
    /\ scImage \in ScanImages
    /\ scPreset \in PresetNames
    /\ scReturn = None
    /\ scpc = "input"
    /\ ValueIdle
    /\ VerifyIdle
    /\ LoadIdle
    /\ GenIdle
    /\ RunIdle
    /\ MatchIdle
    /\ AccIdle
    /\ EngineIdle
    /\ FullTextIdle
    /\ DetectIdle
    /\ SimIdle

ApplyScanEffectsCall ==
    /\ scpc = "input"
    /\ LET params == PresetParams(scPreset)
       IN  \E angle \in Uniform(0 - params.rotation_range, params.rotation_range),
              brightness \in Uniform(params.brightness_range[1], params.brightness_range[2]),
              contrast \in Uniform(params.contrast_range[1], params.contrast_range[2]),
              blur \in Uniform(0, params.blur_radius) :
              scReturn' = [image |-> ApplyScanEffects(scImage, scPreset, angle,
                                                      brightness, contrast, blur),
                           angle |-> angle]
    /\ scpc' = "returned"
    /\ UNCHANGED <<scImage, scPreset, valueVars, verifyVars, loadVars, genVars, runVars,
                   matchVars, accVars, engineVars, fullTextVars, detectVars, simVars,
                   cancelVars>>

NextScan == ApplyScanEffectsCall

SpecScan == InitScan /\ [][NextScan]_vars

\* C23: for every preset name, known or not, the image apply_scan_effects
\* returns has the width and the height of the input image; a name that is
\* no preset is treated as medium (the rotation stays within medium's
\* range).
C23_SizePreserved ==
    scpc = "returned" =>
        /\ scReturn.image.width = scImage.width
        /\ scReturn.image.height = scImage.height
        /\ scPreset \notin {"light", "medium", "heavy"} =>
               Abs(scReturn.angle) <= PRESETS["medium"].rotation_range

\* C23 witness: a non-square image that is not RGB went through the heavy
\* preset with a rotation by the full range.
C23_Witness ==
    /\ scpc = "returned"
    /\ scImage = PilImage("L", 3, 2)
    /\ scPreset = "heavy"
    /\ scReturn.angle = 50
    /\ scReturn.image = PilImage("RGB", 3, 2)

\* C17: similarity(s, s) is 1.0 for every string s, similarity(s, "") is
\* 0.0 for every non-empty s (in either argument order), and every value
\* of the similarity lies in [0, 1].
C17_SimilarityLaws ==
    spc = "scored" =>
        /\ sScore[2] > 0
        /\ 0 <= sScore[1]
        /\ sScore[1] <= sScore[2]
        /\ sText = sExpected => FEq(sScore, One)
        /\ (sExpected # <<>> /\ sText = <<>>) => FEq(sScore, Zero)
        /\ (sExpected = <<>> /\ sText # <<>>) => FEq(sScore, Zero)

\* C17 witness: a string of mixed case has been scored against itself.
C17_Witness ==
    /\ spc = "scored"
    /\ sExpected = <<"a", "A", "b">>
    /\ sText = sExpected

\* C16: for each detector and N >= 0 raw detections, detect returns N
\* regions whose ids are exactly 1..N, the region at (0-based) position k
\* having id k + 1.
C16_ContiguousIds ==
    dpc = "returned" =>
        /\ Len(dRegions) = Len(dRaw)
        /\ {dRegions[k].id : k \in 1..Len(dRegions)} = 1..Len(dRaw)
        /\ \A k \in 1..Len(dRegions) : dRegions[k].id = k

\* C16 witness: detect returned three regions and the sort moved the last
\* raw detection to the front.
C16_Witness ==
    /\ dpc = "returned"
    /\ Len(dRaw) = 3
    /\ dRegions[1] = [DetectedRegion(1, dRaw[3]) EXCEPT !.id = 1]
    /\ dRaw[3] # dRaw[1]
    /\ dRaw[3] # dRaw[2]

(***************************************************************************)
(* Claims on the engine adapters.                                          *)
(***************************************************************************)
\* C13: for every adapter and every model output, each OCRResult that
\* extract_text returns has full_text equal to the texts of its lines
\* joined by single spaces, in emission order.
C13_FullTextIsJoinedLines ==
    epc = "returned" =>
        \A k \in 1..Len(eResults) :
            eResults[k].full_text = JoinTexts(eResults[k].lines, " ")

\* C14: for every adapter, when the model call fails on one region,
\* extract_text raises nothing and returns a result for every region, the
\* failing region's being an empty OCRResult.
C14_SoftFailurePerRegion ==
    (epc # "input" /\ \E k \in 1..Len(eModel) : eModel[k].fails) =>
        /\ ~eRaised
        /\ Len(eResults) = Len(eRegions)
        /\ \A k \in 1..Len(eModel) :
               eModel[k].fails =>
                   eResults[k].full_text = <<>> /\ eResults[k].lines = <<>>

\* C15: for every adapter and every region list, extract_text returns one
\* OCRResult per region, in order, with the region's id; a region for which
\* the model emits no text (no item, or only items whose text is empty)
\* gives an OCRResult with empty full_text and no lines.
C15_OneResultPerRegion ==
    epc = "returned" =>
        /\ Len(eResults) = Len(eRegions)
        /\ \A k \in 1..Len(eRegions) :
               /\ eResults[k].region_id = eRegions[k].id
               /\ (\A n \in 1..Len(eModel[k].items) : eModel[k].items[n].text = <<>>)
                      => (eResults[k].full_text = <<>> /\ eResults[k].lines = <<>>)

(***************************************************************************)
(* Vocabulary of the matcher claims: the candidates of _match_fields in    *)
(* the order the claims enumerate them (results in list order; in a result *)
(* its lines in order, then its full_text).                                *)
(***************************************************************************)
MeanConfidence(lines) ==
    IF Len(lines) = 0 THEN Zero
    ELSE Frac(SumConfidence(lines), Len(lines))

CandidatesOf(r) ==
    [k \in 1..(Len(r.lines) + 1) |->
        IF k <= Len(r.lines)
        THEN [text |-> r.lines[k].text, kind |-> "line",
              confidence |-> Frac(r.lines[k].confidence, 1)]
        ELSE [text |-> r.full_text, kind |-> "full_text",
              confidence |-> MeanConfidence(r.lines)]]

RECURSIVE Candidates(_)
Candidates(ocr_results) ==
    IF ocr_results = <<>> THEN <<>>
    ELSE CandidatesOf(Head(ocr_results)) \o Candidates(Tail(ocr_results))

\* The candidates, each with its similarity to the expected value of field f.
RECURSIVE WithScores(_, _)
WithScores(f, c) ==
    IF c = <<>> THEN <<>>
    ELSE <<[text |-> Head(c).text, kind |-> Head(c).kind,
            confidence |-> Head(c).confidence,
            score |-> Similarity(f.expected_value, Head(c).text)]>>
         \o WithScores(f, Tail(c))

ScoredCandidates(f) == WithScores(f, Candidates(mOcr))

\* c[k] reaches the maximum similarity over all candidates.
IsMaximal(c, k) == \A j \in 1..Len(c) : ~FGt(c[j].score, c[k].score)

\* c[k] is the first candidate that reaches the maximum.
IsFirstMaximal(c, k) ==
    /\ IsMaximal(c, k)
    /\ \A j \in 1..(k - 1) : FGt(c[k].score, c[j].score)

\* Equality ignoring case, stated on the alphabet and not through Lower.
SameLetter(x, y) ==
    \/ x = y
    \/ {x, y} = {"a", "A"}
    \/ {x, y} = {"b", "B"}

EqualsIgnoringCase(s, t) ==
    /\ Len(s) = Len(t)
    /\ \A i \in 1..Len(s) : SameLetter(s[i], t[i])

Scored == mpc = "scored"
FieldIdx == 1..Len(mFields)

\* C6 as stated: match_score is the maximum similarity over all candidates and
\* extracted_value is the first candidate that reaches it.
C6_AsStated ==
    Scored =>
        \A i \in FieldIdx :
            LET f == mFields[i]
                c == ScoredCandidates(f)
            IN  c # <<>> =>
                    \E k \in 1..Len(c) :
                        /\ IsFirstMaximal(c, k)
                        /\ FEq(f.match_score, c[k].score)
                        /\ f.extracted_value = c[k].text

\* C6 amended: match_score is the maximum similarity over all candidates (0.0
\* when there is none); when that maximum is above 0.0, extracted_value is the
\* first candidate reaching it; when it is 0.0, extracted_value is "".
C6_BestCandidate ==
    Scored =>
        \A i \in FieldIdx :
            LET f == mFields[i]
                c == ScoredCandidates(f)
            IN  /\ \A k \in 1..Len(c) : ~FGt(c[k].score, f.match_score)
                /\ \/ /\ FEq(f.match_score, Zero)
                      /\ f.extracted_value = <<>>
                   \/ /\ FGt(f.match_score, Zero)
                      /\ \E k \in 1..Len(c) :
                            /\ IsFirstMaximal(c, k)
                            /\ FEq(f.match_score, c[k].score)
                            /\ f.extracted_value = c[k].text

\* C6 witness: two candidates of different text tie at a maximum above 0.0 and
\* the earlier one is the extracted value.
C6_Witness ==
    /\ Scored
    /\ \E i \in FieldIdx :
          LET f == mFields[i]
              c == ScoredCandidates(f)
          IN  \E k \in 1..Len(c), j \in 1..Len(c) :
                /\ k < j
                /\ IsFirstMaximal(c, k)
                /\ IsMaximal(c, j)
                /\ FGt(c[k].score, Zero)
                /\ c[k].text # c[j].text
                /\ f.extracted_value = c[k].text

HasLineEqualIgnoringCase(f) ==
    \E r \in 1..Len(mOcr) : \E l \in 1..Len(mOcr[r].lines) :
        EqualsIgnoringCase(mOcr[r].lines[l].text, f.expected_value)

\* C7 as stated: an expected value equal, ignoring case, to some text line gives
\* match_score 1.0 and an extracted_value equal to the text of such a line.
C7_AsStated ==
    Scored =>
        \A i \in FieldIdx :
            LET f == mFields[i]
            IN  HasLineEqualIgnoringCase(f) =>
                    /\ FEq(f.match_score, One)
                    /\ \E r \in 1..Len(mOcr) : \E l \in 1..Len(mOcr[r].lines) :
                          /\ EqualsIgnoringCase(mOcr[r].lines[l].text, f.expected_value)
                          /\ f.extracted_value = mOcr[r].lines[l].text

\* C7 amended: an expected value equal, ignoring case, to some text line gives
\* match_score 1.0 and as extracted_value the first candidate (line or
\* full_text, in enumeration order) that equals the expected value ignoring
\* case.
C7_CaseInsensitiveLine ==
    Scored =>
        \A i \in FieldIdx :
            LET f == mFields[i]
                c == ScoredCandidates(f)
            IN  HasLineEqualIgnoringCase(f) =>
                    /\ FEq(f.match_score, One)
                    /\ \E k \in 1..Len(c) :
                          /\ EqualsIgnoringCase(c[k].text, f.expected_value)
                          /\ \A j \in 1..(k - 1) :
                                ~EqualsIgnoringCase(c[j].text, f.expected_value)
                          /\ f.extracted_value = c[k].text

\* C7 witness: two regions, the line that equals the expected value only up to
\* case sits in the second one behind other lines, and it is the extracted
\* value.
C7_Witness ==
    /\ Scored
    /\ Len(mOcr) = 2
    /\ Len(mOcr[1].lines) >= 1
    /\ \E i \in FieldIdx : \E l \in 1..Len(mOcr[2].lines) :
          /\ EqualsIgnoringCase(mOcr[2].lines[l].text, mFields[i].expected_value)
          /\ mOcr[2].lines[l].text # mFields[i].expected_value
          /\ mFields[i].extracted_value = mOcr[2].lines[l].text
          /\ FEq(mFields[i].match_score, One)

\* C8: the stored confidence is that of the winning candidate: the line's own
\* confidence when a line wins, the mean of the region's line confidences (0
\* without lines) when a full_text wins; one region with one line equal to the
\* expected value and confidence c gives score 1.0, that line and c.
C8_WinnerConfidence ==
    Scored =>
        \A i \in FieldIdx :
            LET f == mFields[i]
                c == ScoredCandidates(f)
            IN  /\ \A k \in 1..Len(c) :
                      (IsFirstMaximal(c, k) /\ FGt(c[k].score, Zero)) =>
                          FEq(f.confidence, c[k].confidence)
                /\ (/\ Len(mOcr) = 1
                    /\ Len(mOcr[1].lines) = 1
                    /\ mOcr[1].lines[1].text = f.expected_value) =>
                       /\ FEq(f.match_score, One)
                       /\ f.extracted_value = mOcr[1].lines[1].text
                       /\ FEq(f.confidence, Frac(mOcr[1].lines[1].confidence, 1))

\* C8 witness: a full_text built from two lines of different confidence wins.
C8_Witness ==
    /\ Scored
    /\ \E i \in FieldIdx :
          LET f == mFields[i]
              c == ScoredCandidates(f)
          IN  \E k \in 1..Len(c) :
                /\ IsFirstMaximal(c, k)
                /\ FGt(c[k].score, Zero)
                /\ c[k].kind = "full_text"
                /\ \E r \in 1..Len(mOcr) :
                      /\ Len(mOcr[r].lines) = 2
                      /\ mOcr[r].full_text = c[k].text
                      /\ mOcr[r].lines[1].confidence # mOcr[r].lines[2].confidence
                      /\ FEq(f.confidence, MeanConfidence(mOcr[r].lines))
                      /\ ~FEq(f.confidence, Frac(mOcr[r].lines[1].confidence, 1))

NoTextAnywhere ==
    \A r \in 1..Len(mOcr) : mOcr[r].lines = <<>> /\ mOcr[r].full_text = <<>>

\* C9 as stated: with no OCR text anywhere every field, whatever its expected
\* value, gets extracted_value "" and match_score 0.0.
C9_AsStated ==
    (Scored /\ NoTextAnywhere) =>
        \A i \in FieldIdx :
            /\ mFields[i].extracted_value = <<>>
            /\ FEq(mFields[i].match_score, Zero)

\* C9 amended: with no OCR text anywhere every field gets extracted_value "";
\* its match_score is 0.0 when the expected value is non-empty or the result
\* list is empty, and 1.0 when the expected value is "" and some (empty)
\* result exists.
C9_NoText ==
    (Scored /\ NoTextAnywhere) =>
        /\ Len(mFields) = Len(mExpected)
        /\ \A i \in FieldIdx :
            /\ mFields[i].extracted_value = <<>>
            /\ (mFields[i].expected_value # <<>> \/ mOcr = <<>>) =>
                   FEq(mFields[i].match_score, Zero)
            /\ (mFields[i].expected_value = <<>> /\ mOcr # <<>>) =>
                   FEq(mFields[i].match_score, One)

\* C9 witness: a non-empty expected value matched against regions without text.
C9_Witness ==
    /\ Scored
    /\ NoTextAnywhere
    /\ mOcr # <<>>
    /\ \E i \in FieldIdx :
          /\ mFields[i].expected_value # <<>>
          /\ mFields[i].extracted_value = <<>>
          /\ FEq(mFields[i].match_score, Zero)

(***************************************************************************)
(* Vocabulary of the accuracy claim.                                       *)
(***************************************************************************)
RECURSIVE SumOver(_, _)
SumOver(fields, idx) ==
    IF idx = {} THEN Zero
    ELSE LET i == CHOOSE j \in idx : TRUE
         IN  FAdd(fields[i].match_score, SumOver(fields, idx \ {i}))

ImportantIdx(fields) == {i \in 1..Len(fields) : fields[i].is_important}

\* result = mean of the match_score of the fields at idx (idx not empty).
IsMeanOver(result, fields, idx) ==
    FEq(Frac(result[1], result[2]),
        Frac(SumOver(fields, idx)[1], SumOver(fields, idx)[2] * Cardinality(idx)))

\* C10: _calculate_accuracy returns the mean match_score over the important
\* fields; over all fields when the list is non-empty and none is important;
\* 0.0 for the empty list; it never divides by zero.
C10_Accuracy ==
    apc = "returned" =>
        /\ aResult[2] > 0
        /\ aFields = <<>> => FEq(aResult, Zero)
        /\ ImportantIdx(aFields) # {} =>
               IsMeanOver(aResult, aFields, ImportantIdx(aFields))
        /\ (aFields # <<>> /\ ImportantIdx(aFields) = {}) =>
               IsMeanOver(aResult, aFields, 1..Len(aFields))

\* C10 witness: several fields, none important, with a mean above 0.0.
C10_Witness ==
    /\ apc = "returned"
    /\ Len(aFields) >= 2
    /\ ImportantIdx(aFields) = {}
    /\ FGt(aResult, Zero)
    /\ \E i \in 1..Len(aFields) : ~FEq(aFields[i].match_score, aResult)

(***************************************************************************)
(* The stores and registries the test-run machine works on.                *)
(***************************************************************************)
LayoutDetectorNames == {"doclayout_yolo", "doctr", "surya"}
OcrEngineNames ==
    {"easyocr", "surya", "paddleocr", "tesseract", "trocr", "got_ocr", "mineru"}

\* The batches collection.  Batches are never deleted or rewritten.
StoredBatchIds == {"b1", "b2"}

GetBatchById(batch_id) ==
    CASE batch_id = "b1" ->
             [id |-> "b1", batch_type |-> "synthetic",
              documents |-> <<"d1", "d2", "d3">>]
      [] batch_id = "b2" ->
             [id |-> "b2", batch_type |-> "handwritten", documents |-> <<"h1">>]

BatchExists(batch_id) == batch_id \in StoredBatchIds

\* document.field_values of the stored documents.
FieldValuesOf(doc) ==
    CASE doc = "d1" -> <<[name |-> "case_number", value |-> <<"a">>]>>
      [] doc = "d2" -> <<[name |-> "case_number", value |-> <<"a", " ", "a">>]>>
      [] doc = "d3" -> <<[name |-> "case_number", value |-> <<"b">>]>>
      [] OTHER -> <<>>

\* What the detector and the engine return for the stored documents.
RegionsOf(doc) == IF doc = "d2" THEN <<1, 2>> ELSE <<1>>

LinesOf(doc, region_id) ==
    CASE doc = "d1" -> <<TextLine(<<"a">>, 90)>>
      [] doc = "d2" /\ region_id = 1 -> <<TextLine(<<"A">>, 80), TextLine(<<"a">>, 70)>>
      [] doc = "d2" /\ region_id = 2 -> <<>>
      [] doc = "d3" -> <<TextLine(<<"a">>, 60)>>
      [] OTHER -> <<TextLine(<<"a", " ", "a">>, 50)>>

ExtractText(doc, regions) ==
    [k \in 1..Len(regions) |-> OCRResult(regions[k], LinesOf(doc, regions[k]), " ")]

\* What a client may send.
RequestedBatchIds == StoredBatchIds \cup {"missing"}
RequestedLayouts == {"doctr", "", "bogus_layout"}
RequestedOcrs == {"easyocr", "bogus_ocr"}
BatchIdLists == UNION {[1..n -> RequestedBatchIds] : n \in 0..MaxBatchIds}

RunId == "run-1"
DirectRunId == "direct"

(***************************************************************************)
(* FirestoreService.update_test_run_status / create_test_run /             *)
(* create_result                                                           *)
(***************************************************************************)
UpdateTestRunStatus(run, status, has_processed, processed_documents, error_message) ==
    IF ~run.exists THEN run
    ELSE [run EXCEPT
             !.status = status,
             !.processed_documents =
                 IF has_processed THEN processed_documents ELSE @,
             !.error_message = IF error_message # None THEN error_message ELSE @,
             !.completed_at = IF status \in {"completed", "failed"} THEN TRUE ELSE @]

CreateTestRun(batch_ids, layout_library, ocr_library, total_documents) ==
    [exists |-> TRUE, status |-> "pending", error_message |-> None,
     completed_at |-> FALSE, total_documents |-> total_documents,
     processed_documents |-> 0, batch_ids |-> batch_ids,
     layout_library |-> layout_library, ocr_library |-> ocr_library]

\* Every call stores a new document under a fresh uuid: nothing is replaced.
CreateResult(store, test_run_id, document_id, batch_id, doc_results) ==
    Append(store,
           [test_run_id |-> test_run_id, document_id |-> document_id,
            batch_id |-> batch_id,
            layout_results |-> doc_results.layout_results,
            ocr_results |-> doc_results.ocr_results,
            extracted_fields |-> doc_results.extracted_fields,
            overall_accuracy |-> doc_results.overall_accuracy])

(***************************************************************************)
(* run_tests (routers/tests.py)                                            *)
(***************************************************************************)
AnyMissing(batch_ids) == \E k \in 1..Len(batch_ids) : ~BatchExists(batch_ids[k])

HasHandwritten(batch_ids) ==
    \E k \in 1..Len(batch_ids) :
        BatchExists(batch_ids[k]) /\ GetBatchById(batch_ids[k]).batch_type = "handwritten"

HasSynthetic(batch_ids) ==
    \E k \in 1..Len(batch_ids) :
        BatchExists(batch_ids[k]) /\ GetBatchById(batch_ids[k]).batch_type # "handwritten"

\* Mutant of TotalDocuments: only the first listed batch is counted.
TotalDocumentsFirstOnly(batch_ids) ==
    IF batch_ids = <<>> THEN 0
    ELSE Len(GetBatchById(Head(batch_ids)).documents)

RECURSIVE TotalDocuments(_)
TotalDocuments(batch_ids) ==
    IF batch_ids = <<>> THEN 0
    ELSE Len(GetBatchById(Head(batch_ids)).documents) + TotalDocuments(Tail(batch_ids))

\* The checks of run_tests, in the order the handler makes them.
RunTestsOutcome(req) ==
    IF AnyMissing(req.batch_ids) THEN "404 Batch not found"
    ELSE IF HasSynthetic(req.batch_ids) /\ req.layout_library \notin LayoutDetectorNames
    THEN "400 Invalid layout library"
    ELSE IF req.ocr_library \notin OcrEngineNames THEN "400 Invalid OCR library"
    ELSE IF TotalDocuments(req.batch_ids) = 0 THEN "400 no documents"
    ELSE "200"

\* "Default layout_library for handwritten-only runs".
DefaultedLayout(req) ==
    IF /\ req.layout_library = ""
       /\ HasHandwritten(req.batch_ids)
       /\ ~HasSynthetic(req.batch_ids)
    THEN "none"
    ELSE req.layout_library

RunTests ==
    /\ caller = "none"
    /\ response = "none"
    /\ \E ids \in BatchIdLists, layout \in RequestedLayouts, ocr \in RequestedOcrs :
          LET req == [batch_ids |-> ids, layout_library |-> layout, ocr_library |-> ocr]
              outcome == RunTestsOutcome(req)
          IN  /\ request' = req
              /\ response' = outcome
              /\ IF outcome = "200"
                 THEN /\ testRun' = CreateTestRun(ids, DefaultedLayout(req), ocr,
                                                  TotalDocuments(ids))
                      /\ task' = [test_run_id |-> RunId, batch_ids |-> ids,
                                  layout_library |-> DefaultedLayout(req),
                                  ocr_library |-> ocr]
                      /\ caller' = "run_tests"
                      /\ pc' = "scheduled"
                 ELSE UNCHANGED <<testRun, task, caller, pc>>
    /\ UNCHANGED <<results, batchIdx, docIdx, total_processed, raised, log,
                   matchVars, accVars, auxVars>>

(***************************************************************************)
(* The pipeline: run_test_background driving process_batch, which drives   *)
(* process_document / process_document_full_text.                          *)
(***************************************************************************)
CurrentBatch == GetBatchById(task.batch_ids[batchIdx])
CurrentDocument == CurrentBatch.documents[docIdx + 1]
\* Mutant of IsHandwritten: every batch is taken for a synthetic one.
NeverHandwritten == FALSE

\* is_handwritten of process_batch.
IsHandwritten == CurrentBatch.batch_type = "handwritten"

Event(op, doc) ==
    [op |-> op, pass |-> batchIdx, i |-> docIdx + 1, doc |-> doc, total |-> 0,
     status |-> None, has_processed |-> FALSE, processed |-> 0, error |-> None]

StatusWrite(status, has_processed, processed, error) ==
    [op |-> "update_test_run_status", pass |-> batchIdx, i |-> 0, doc |-> None,
     total |-> 0, status |-> status, has_processed |-> has_processed,
     processed |-> processed, error |-> error]

DownloadError == "download failed"
DetectError == "layout detection failed"
ExtractError == "ocr extraction failed"
UnknownLayoutError == "Unknown layout detector"
UnknownOcrError == "Unknown OCR engine"

\* Mutant of Fail: the failing document is skipped and the batch goes on.
FailAndContinue(message, events) ==
    /\ raised' = message
    /\ log' = log \o events
    /\ pc' = "next_doc"
    /\ docIdx' = docIdx + 1
    /\ UNCHANGED <<testRun, results, response, request, task, caller, batchIdx,
                   total_processed>>

\* An exception leaves process_batch.  run_test_background catches it and
\* records the run as failed with str(e); a direct caller just gets it.
Fail(message, events) ==
    /\ raised' = message
    /\ IF caller = "run_tests"
       THEN /\ testRun' = UpdateTestRunStatus(testRun, "failed", FALSE, 0, message)
            /\ log' = log \o events \o <<StatusWrite("failed", FALSE, 0, message)>>
            /\ pc' = "done"
       ELSE /\ log' = log \o events
            /\ pc' = "raised"
            /\ UNCHANGED testRun
    /\ UNCHANGED <<results, response, request, task, caller, batchIdx, docIdx,
                   total_processed>>

\* process_batch called by some other caller, without progress callback.
ProcessBatchDirect ==
    /\ caller = "none"
    /\ response = "none"
    /\ \E b \in StoredBatchIds, layout \in RequestedLayouts, ocr \in RequestedOcrs :
          task' = [test_run_id |-> DirectRunId, batch_ids |-> <<b>>,
                   layout_library |-> layout, ocr_library |-> ocr]
    /\ caller' = "direct"
    /\ batchIdx' = 1
    /\ docIdx' = 0
    /\ pc' = "next_doc"
    /\ UNCHANGED <<testRun, results, response, request, total_processed, raised,
                   log, matchVars, accVars, auxVars>>

\* "Update status to running", total_processed = 0.
BgStart ==
    /\ pc = "scheduled"
    /\ testRun' = UpdateTestRunStatus(testRun, "running", FALSE, 0, None)
    /\ log' = Append(log, StatusWrite("running", FALSE, 0, None))
    /\ total_processed' = 0
    /\ batchIdx' = 1
    /\ pc' = "next_batch"
    /\ UNCHANGED <<results, response, request, task, caller, docIdx, raised,
                   matchVars, accVars, auxVars>>

\* for batch_id in batch_ids: get_batch_by_id; a missing batch is skipped.
BgGetBatch ==
    /\ pc = "next_batch"
    /\ batchIdx <= Len(task.batch_ids)
    /\ IF BatchExists(task.batch_ids[batchIdx])
       THEN /\ docIdx' = 0
            /\ pc' = "next_doc"
            /\ UNCHANGED batchIdx
       ELSE /\ batchIdx' = batchIdx + 1
            /\ UNCHANGED <<docIdx, pc>>
    /\ UNCHANGED <<testRun, results, response, request, task, caller,
                   total_processed, raised, log, matchVars, accVars, auxVars>>

\* Mutant of BgComplete: the run is completed at any batch boundary.
BgCompleteEarly ==
    /\ pc = "next_batch"
    /\ testRun' = UpdateTestRunStatus(testRun, "completed", TRUE, total_processed, None)
    /\ log' = Append(log, StatusWrite("completed", TRUE, total_processed, None))
    /\ pc' = "done"
    /\ UNCHANGED <<results, response, request, task, caller, batchIdx, docIdx,
                   total_processed, raised, matchVars, accVars, auxVars>>

\* "Update status to completed".
BgComplete ==
    /\ pc = "next_batch"
    /\ batchIdx > Len(task.batch_ids)
    /\ testRun' = UpdateTestRunStatus(testRun, "completed", TRUE, total_processed, None)
    /\ log' = Append(log, StatusWrite("completed", TRUE, total_processed, None))
    /\ pc' = "done"
    /\ UNCHANGED <<results, response, request, task, caller, batchIdx, docIdx,
                   total_processed, raised, matchVars, accVars, auxVars>>

TotalAfterBatch(total, batch) == total + Len(batch.documents)

\* process_batch returns; total_processed += len(batch.documents).
BatchReturn ==
    /\ pc = "next_doc"
    /\ docIdx >= Len(CurrentBatch.documents)
    /\ IF caller = "run_tests"
       THEN /\ total_processed' = TotalAfterBatch(total_processed, CurrentBatch)
            /\ batchIdx' = batchIdx + 1
            /\ pc' = "next_batch"
       ELSE /\ pc' = "returned"
            /\ UNCHANGED <<total_processed, batchIdx>>
    /\ UNCHANGED <<testRun, results, response, request, task, caller, docIdx,
                   raised, log, matchVars, accVars, auxVars>>

\* process_document / process_document_full_text: "Download document image".
Download ==
    /\ pc = "next_doc"
    /\ docIdx < Len(CurrentBatch.documents)
    /\ \E outcome \in {"ok", "raise"} :
          IF outcome = "ok"
          THEN /\ log' = Append(log, Event("download_file", CurrentDocument))
               /\ pc' = "get_adapters"
               /\ UNCHANGED <<testRun, results, response, request, task, caller,
                              batchIdx, docIdx, total_processed, raised>>
          ELSE Fail(DownloadError, <<Event("download_file", CurrentDocument)>>)
    /\ UNCHANGED <<matchVars, accVars, auxVars>>

\* get_layout_detector (field-mapped mode only), then get_ocr_engine.
AdapterLookups ==
    IF IsHandwritten
    THEN <<Event("get_ocr_engine", CurrentDocument)>>
    ELSE IF task.layout_library \notin LayoutDetectorNames
    THEN <<Event("get_layout_detector", CurrentDocument)>>
    ELSE <<Event("get_layout_detector", CurrentDocument),
           Event("get_ocr_engine", CurrentDocument)>>

GetAdapters ==
    /\ pc = "get_adapters"
    /\ IF ~IsHandwritten /\ task.layout_library \notin LayoutDetectorNames
       THEN Fail(UnknownLayoutError, AdapterLookups)
       ELSE IF task.ocr_library \notin OcrEngineNames
       THEN Fail(UnknownOcrError, AdapterLookups)
       ELSE /\ log' = log \o AdapterLookups
            /\ pc' = IF IsHandwritten THEN "extract" ELSE "detect"
            /\ UNCHANGED <<testRun, results, response, request, task, caller,
                           batchIdx, docIdx, total_processed, raised>>
    /\ UNCHANGED <<matchVars, accVars, auxVars>>

\* layout_detector.detect(image)
Detect ==
    /\ pc = "detect"
    /\ \E outcome \in {"ok", "raise"} :
          IF outcome = "ok"
          THEN /\ log' = Append(log, Event("detect", CurrentDocument))
               /\ pc' = "extract"
               /\ UNCHANGED <<testRun, results, response, request, task, caller,
                              batchIdx, docIdx, total_processed, raised>>
          ELSE Fail(DetectError, <<Event("detect", CurrentDocument)>>)
    /\ UNCHANGED <<matchVars, accVars, auxVars>>

\* ocr_engine.extract_text(image, regions)
Extract ==
    /\ pc = "extract"
    /\ \E outcome \in {"ok", "raise"} :
          IF outcome = "ok"
          THEN /\ log' = Append(log, Event("extract_text", CurrentDocument))
               /\ pc' = "persist"
               /\ UNCHANGED <<testRun, results, response, request, task, caller,
                              batchIdx, docIdx, total_processed, raised>>
          ELSE Fail(ExtractError, <<Event("extract_text", CurrentDocument)>>)
    /\ UNCHANGED <<matchVars, accVars, auxVars>>

\* What process_document returns once detection and extraction succeeded.
ProcessDocument(doc, layout_library) ==
    LET regions == RegionsOf(doc)
        ocr_results_list == ExtractText(doc, regions)
        extracted_fields == MatchFields(FieldValuesOf(doc), ocr_results_list)
    IN  [layout_results |-> [library |-> layout_library, regions |-> regions],
         ocr_results |-> [regions |-> ocr_results_list,
                          full_text |-> <<>>, text_regions |-> <<>>],
         extracted_fields |-> extracted_fields,
         overall_accuracy |-> CalculateAccuracy(extracted_fields)]

RECURSIVE JoinFullTexts(_)
JoinFullTexts(ocr_results_list) ==
    IF ocr_results_list = <<>> THEN <<>>
    ELSE IF Len(ocr_results_list) = 1 THEN Head(ocr_results_list).full_text
    ELSE Head(ocr_results_list).full_text \o <<" ">>
         \o JoinFullTexts(Tail(ocr_results_list))

RECURSIVE AllLines(_)
AllLines(ocr_results_list) ==
    IF ocr_results_list = <<>> THEN <<>>
    ELSE Head(ocr_results_list).lines \o AllLines(Tail(ocr_results_list))

\* Mutant of FullPageRegion: the pseudo-region is a square of the image's
\* width.
FullPageRegionSquare(image) == Region(0, "full_page", image.width, image.width)

\* "Create a single region covering the entire image".
FullPageRegion(image) == Region(0, "full_page", image.width, image.height)

\* What process_document_full_text returns for the list the engine returned.
FullTextResult(ocr_results_list) ==
    [layout_results |-> [library |-> "none (full-text OCR)", regions |-> <<>>],
     ocr_results |-> [regions |-> ocr_results_list,
                      full_text |-> JoinFullTexts(ocr_results_list),
                      text_regions |-> AllLines(ocr_results_list)],
     extracted_fields |-> <<>>,
     overall_accuracy |-> Zero]

\* process_document_full_text on a stored document: the engine is run on
\* the one full-page region, whose id is 0.
ProcessDocumentFullText(doc) == FullTextResult(ExtractText(doc, <<0>>))

\* The document's results are scored and stored: firestore.create_result.
Persist ==
    /\ pc = "persist"
    /\ results' = CreateResult(results, task.test_run_id, CurrentDocument,
                               CurrentBatch.id,
                               IF IsHandwritten
                               THEN ProcessDocumentFullText(CurrentDocument)
                               ELSE ProcessDocument(CurrentDocument,
                                                    task.layout_library))
    /\ log' = Append(log, Event("create_result", CurrentDocument))
    /\ IF caller = "run_tests"
       THEN /\ pc' = "progress"
            /\ UNCHANGED docIdx
       ELSE /\ pc' = "next_doc"
            /\ docIdx' = docIdx + 1
    /\ UNCHANGED <<testRun, response, request, task, caller, batchIdx,
                   total_processed, raised, matchVars, accVars, auxVars>>

\* progress_callback(i + 1, len(batch.documents)) and the lambda it is:
\* update_test_run_status(RUNNING, processed_documents=total_processed + curr).
\* Mutant of CallbackArgs: the enumerate() index is passed as it is.
CallbackArgsZeroBased(i, batch) == <<i, Len(batch.documents)>>

\* Mutant of ProcessedSoFar: the documents of earlier batches are forgotten.
ProcessedInBatchOnly(total, curr) == curr

CallbackArgs(i, batch) == <<i + 1, Len(batch.documents)>>
ProcessedSoFar(total, curr) == total + curr

Progress ==
    /\ pc = "progress"
    /\ LET args == CallbackArgs(docIdx, CurrentBatch)
           processed == ProcessedSoFar(total_processed, args[1])
       IN  /\ testRun' = UpdateTestRunStatus(testRun, "running", TRUE, processed, None)
           /\ log' = log \o <<[Event("progress_callback", CurrentDocument)
                                  EXCEPT !.i = args[1], !.total = args[2]],
                              StatusWrite("running", TRUE, processed, None)>>
    /\ docIdx' = docIdx + 1
    /\ pc' = "next_doc"
    /\ UNCHANGED <<results, response, request, task, caller, batchIdx,
                   total_processed, raised, matchVars, accVars, auxVars>>

(***************************************************************************)
(* cancel_test_run (routers/tests.py): 404 when the run is not stored, 400  *)
(* when its stored status is neither running nor pending; otherwise        *)
(* update_test_run_status(FAILED, error_message="Cancelled by user").  The *)
(* handler shares nothing with run_test_background but the stored run.     *)
(***************************************************************************)
CancelOutcome(run) ==
    IF ~run.exists THEN "404"
    ELSE IF run.status \notin {"running", "pending"} THEN "400"
    ELSE "200"

\* Mutant of CancelTestRun: an accepted cancel also stops the background task.
CancelStopsTask ==
    /\ cancelResponse' = CancelOutcome(testRun)
    /\ IF CancelOutcome(testRun) = "200"
       THEN /\ testRun' = UpdateTestRunStatus(testRun, "failed", FALSE, 0,
                                              "Cancelled by user")
            /\ cancelledAt' = Len(log)
            /\ pc' = "done"
       ELSE UNCHANGED <<testRun, cancelledAt, pc>>
    /\ UNCHANGED <<results, response, request, task, caller, batchIdx, docIdx,
                   total_processed, raised, log, matchVars, accVars, pureVars>>

CancelTestRun ==
    /\ cancelResponse' = CancelOutcome(testRun)
    /\ IF CancelOutcome(testRun) = "200"
       THEN /\ testRun' = UpdateTestRunStatus(testRun, "failed", FALSE, 0,
                                              "Cancelled by user")
            /\ cancelledAt' = Len(log)
       ELSE UNCHANGED <<testRun, cancelledAt>>
    /\ UNCHANGED <<results, response, request, task, caller, pc, batchIdx, docIdx,
                   total_processed, raised, log, matchVars, accVars, pureVars>>

Init == RunIdle /\ MatchIdle /\ AccIdle /\ AuxIdle

Next ==
    \/ RunTests
    \/ ProcessBatchDirect
    \/ BgStart
    \/ BgGetBatch
    \/ BgComplete
    \/ BatchReturn
    \/ Download
    \/ GetAdapters
    \/ Detect
    \/ Extract
    \/ Persist
    \/ Progress
    \/ CancelTestRun

Spec == Init /\ [][Next]_vars

(***************************************************************************)
(* Claims on the lifecycle of a run.                                       *)
(***************************************************************************)
IsStatusWrite(e) == e.op = "update_test_run_status"

\* The result of document i of the pass over the k-th listed batch was
\* persisted before position p of the call history.
PersistedBefore(k, i, p) ==
    \E q \in 1..(p - 1) :
        /\ log[q].op = "create_result"
        /\ log[q].pass = k
        /\ log[q].i = i
        /\ log[q].doc = GetBatchById(task.batch_ids[k]).documents[i]

\* C24: when no cancel is issued, run_tests leaves the run pending with
\* processed_documents 0 and nothing processed; the first thing the
\* background task does is write running; completed is written only after
\* every document of every listed batch had its result persisted; the
\* statuses written are running, any number of times, then one of
\* completed or failed, after which nothing is written, and a task that
\* has ended has written one of the two.
C24_RunLifecycle ==
    (caller = "run_tests" /\ cancelResponse = "none") =>
        /\ pc = "scheduled" =>
               /\ response = "200"
               /\ testRun.status = "pending"
               /\ testRun.processed_documents = 0
               /\ log = <<>>
               /\ results = <<>>
        /\ log # <<>> => IsStatusWrite(log[1]) /\ log[1].status = "running"
        /\ \A p \in 1..Len(log) :
               IsStatusWrite(log[p]) =>
                   /\ log[p].status \in {"running", "completed", "failed"}
                   /\ log[p].status \in {"completed", "failed"} =>
                          p = Len(log) /\ pc = "done"
                   /\ log[p].status = "completed" =>
                          /\ \A k \in 1..Len(task.batch_ids) :
                                 \A i \in 1..Len(GetBatchById(task.batch_ids[k]).documents) :
                                     PersistedBefore(k, i, p)
                          /\ Len(results) = TotalDocuments(task.batch_ids)
        /\ testRun.status =
               IF log = <<>> THEN "pending"
               ELSE LET writes == SelectSeq(log, IsStatusWrite)
                    IN  writes[Len(writes)].status
        /\ pc = "done" => testRun.status \in {"completed", "failed"}

\* C24 witness: a run over two batches, never cancelled, has completed with
\* all four results persisted.
C24_Witness ==
    /\ caller = "run_tests"
    /\ cancelResponse = "none"
    /\ Len(task.batch_ids) = 2
    /\ task.batch_ids[1] # task.batch_ids[2]
    /\ pc = "done"
    /\ testRun.status = "completed"
    /\ Len(results) = 4

\* The batch the p-th entry of the call history belongs to.
BatchOfEntry(p) == GetBatchById(task.batch_ids[log[p].pass])

\* The stored result the create_result entry at position p created.
ResultOfEntry(p) ==
    results[Cardinality({q \in 1..p : log[q].op = "create_result"})]

\* C25: every document of a handwritten batch is processed in full-text
\* mode, with no layout detector looked up or invoked, and every document
\* of any other batch in field-mapped mode, detection before extraction;
\* so an unknown or empty layout_library never fails a handwritten batch.
C25_ModePerBatch ==
    /\ \A p \in 1..Len(log) :
           log[p].op \in {"get_layout_detector", "detect", "get_ocr_engine",
                          "extract_text", "create_result"} =>
               IF BatchOfEntry(p).batch_type = "handwritten"
               THEN /\ log[p].op \notin {"get_layout_detector", "detect"}
                    /\ log[p].op = "create_result" =>
                           /\ ResultOfEntry(p).layout_results.library =
                                  "none (full-text OCR)"
                           /\ ResultOfEntry(p).extracted_fields = <<>>
                           /\ ResultOfEntry(p).ocr_results.full_text =
                                  JoinFullTexts(ResultOfEntry(p).ocr_results.regions)
               ELSE /\ log[p].op = "extract_text" =>
                           \E q \in 1..(p - 1) :
                               /\ log[q].op = "detect"
                               /\ log[q].pass = log[p].pass
                               /\ log[q].i = log[p].i
                    /\ log[p].op = "create_result" =>
                           /\ ResultOfEntry(p).layout_results.library = task.layout_library
                           /\ Len(ResultOfEntry(p).extracted_fields) =
                                  Len(FieldValuesOf(log[p].doc))
                           /\ ResultOfEntry(p).overall_accuracy =
                                  CalculateAccuracy(ResultOfEntry(p).extracted_fields)
    /\ (raised = UnknownLayoutError /\ batchIdx \in 1..Len(task.batch_ids)) =>
           CurrentBatch.batch_type # "handwritten"

\* C25 witness: a run over the handwritten batch with a layout_library that
\* names no detector has completed, its document stored in full-text form.
C25_Witness ==
    /\ caller = "run_tests"
    /\ task.layout_library = "bogus_layout"
    /\ GetBatchById(task.batch_ids[1]).batch_type = "handwritten"
    /\ testRun.status = "completed"
    /\ raised = None
    /\ Len(results) >= 1
    /\ results[1].layout_results.library = "none (full-text OCR)"

\* C26: once the stored status of a run is completed or failed, whoever
\* wrote it, no later step of the background task or of cancel_test_run
\* changes it to another value.
C26_TerminalAbsorbing ==
    [][(testRun.exists /\ testRun.status \in {"completed", "failed"}) =>
          testRun'.status = testRun.status]_vars

\* C27: a stored run carries an error message only when its status is
\* failed, and a completion time only when its status is completed or
\* failed.
C27_ErrorOnlyWhenFailed ==
    testRun.exists =>
        /\ testRun.error_message # None => testRun.status = "failed"
        /\ testRun.completed_at => testRun.status \in {"completed", "failed"}

\* The results persisted for the run that run_tests started.
ResultsOfRun == {i \in 1..Len(results) : results[i].test_run_id = RunId}

\* C28: processed_documents never exceeds total_documents, the sum of the
\* sizes of the requested batches; a run stored as completed has
\* processed_documents equal to total_documents and as many persisted
\* results.
C28_ProcessedWithinTotal ==
    testRun.exists =>
        /\ testRun.total_documents = TotalDocuments(testRun.batch_ids)
        /\ testRun.processed_documents <= testRun.total_documents
        /\ testRun.status = "completed" =>
               /\ testRun.processed_documents = testRun.total_documents
               /\ Cardinality(ResultsOfRun) = testRun.total_documents

\* C28 witness: a run that lists the same batch twice, and was cancelled
\* on the way, has completed with every document processed twice.
C28_Witness ==
    /\ testRun.exists
    /\ testRun.status = "completed"
    /\ Len(testRun.batch_ids) = 2
    /\ testRun.batch_ids[1] = testRun.batch_ids[2]
    /\ testRun.processed_documents = Cardinality(ResultsOfRun)
    /\ testRun.processed_documents > Len(GetBatchById(testRun.batch_ids[1]).documents)
    /\ cancelledAt >= 0

(***************************************************************************)
(* Claim on cancel_test_run.                                               *)
(***************************************************************************)
\* C18: a cancel_test_run step on a run stored as pending or running writes
\* status failed with error_message "Cancelled by user" and changes nothing
\* else: the position, the locals, the results and the call history of the
\* background task are untouched, so the task goes on; on a run stored as
\* completed or failed the cancel is rejected and the stored run is
\* unchanged.
C18_CancelIsBookkeeping ==
    [][CancelTestRun =>
          /\ UNCHANGED <<results, task, caller, pc, batchIdx, docIdx,
                         total_processed, raised, log>>
          /\ (testRun.exists /\ testRun.status \in {"pending", "running"}) =>
                 /\ testRun'.status = "failed"
                 /\ testRun'.error_message = "Cancelled by user"
                 /\ testRun'.processed_documents = testRun.processed_documents
                 /\ cancelResponse' = "200"
          /\ (testRun.exists /\ testRun.status \in {"completed", "failed"}) =>
                 /\ testRun' = testRun
                 /\ cancelResponse' = "400"]_vars

\* C18 witness: after an accepted cancel the background task has persisted
\* a result, written progress, and a later cancel was rejected on the run
\* it completed.
C18_Witness ==
    /\ cancelledAt >= 0
    /\ cancelResponse = "400"
    /\ testRun.status = "completed"
    /\ testRun.error_message = "Cancelled by user"
    /\ \E p \in (cancelledAt + 1)..Len(log) :
           /\ log[p].op = "create_result"
           /\ \E q \in (p + 1)..Len(log) :
                  /\ log[q].op = "update_test_run_status"
                  /\ log[q].status = "running"

(***************************************************************************)
(* SpecFullText: process_document_full_text with every adapter, on images  *)
(* of several sizes and bounded model outputs.                             *)
(***************************************************************************)
ImageSizes == {[width |-> 20, height |-> 30], [width |-> 40, height |-> 10]}

Call(op, regions) == [op |-> op, regions |-> regions]

InitFullText ==
    /\ fImage \in ImageSizes
    /\ fCalls = <<>>
    /\ fReturn = NoReturn
    /\ fpc = "input"
    /\ eEngine \in EngineNames
    /\ eModel \in CropInputs(eEngine, 1)
    /\ eRegions = <<>>
    /\ eResults = <<>>
    /\ eRaised = FALSE
    /\ epc = "idle"
    /\ RunIdle
    /\ MatchIdle
    /\ AccIdle
    /\ DetectIdle
    /\ SimIdle
    /\ RestIdle

\* download_file, get_ocr_engine, extract_text on [full_region], then the
\* dictionary is put together; an exception of the engine leaves the method.
ProcessDocumentFullTextCall ==
    /\ fpc = "input"
    /\ LET regions == <<FullPageRegion(fImage)>>
           out == ExtractTextOf(eEngine, regions, eModel)
       IN  /\ fCalls' = <<Call("download_file", <<>>), Call("get_ocr_engine", <<>>),
                          Call("extract_text", regions)>>
           /\ eRegions' = regions
           /\ eResults' = out.results
           /\ eRaised' = out.raised
           /\ IF out.raised
              THEN fpc' = "raised" /\ UNCHANGED fReturn
              ELSE fpc' = "returned" /\ fReturn' = FullTextResult(out.results)
    /\ UNCHANGED <<fImage, eEngine, eModel, epc, runVars, matchVars, accVars,
                   detectVars, simVars, cancelVars, restVars>>

NextFullText == ProcessDocumentFullTextCall

SpecFullText == InitFullText /\ [][NextFullText]_vars

\* C12: when process_document_full_text returns, it has called the engine
\* once, with exactly one region whose bbox is (0, 0, width, height) of the
\* image, and no layout detector; extracted_fields is empty,
\* overall_accuracy is 0.0 and the layout region list is empty;
\* ocr_results.full_text is the space-join of the engine results' full_text
\* and text_regions lists the (text, confidence) of every line, in order.
C12_FullTextMode ==
    fpc = "returned" =>
        /\ Cardinality({k \in 1..Len(fCalls) : fCalls[k].op = "extract_text"}) = 1
        /\ \A k \in 1..Len(fCalls) :
               /\ fCalls[k].op \notin {"get_layout_detector", "detect"}
               /\ fCalls[k].op = "extract_text" =>
                      /\ Len(fCalls[k].regions) = 1
                      /\ fCalls[k].regions[1].bbox =
                             [x1 |-> 0, y1 |-> 0, x2 |-> fImage.width,
                              y2 |-> fImage.height]
        /\ fReturn.extracted_fields = <<>>
        /\ fReturn.overall_accuracy = Zero
        /\ fReturn.layout_results.regions = <<>>
        /\ fReturn.ocr_results.full_text =
               JoinStrings([k \in 1..Len(eResults) |-> eResults[k].full_text], " ")
        /\ Len(eResults) = 1
        /\ fReturn.ocr_results.text_regions =
               [n \in 1..Len(eResults[1].lines) |->
                   [text |-> eResults[1].lines[n].text,
                    confidence |-> eResults[1].lines[n].confidence]]

\* C12 witness: full-text mode returned on an image that is not square,
\* the engine having emitted two lines.
C12_Witness ==
    /\ fpc = "returned"
    /\ fImage.width # fImage.height
    /\ Len(fReturn.ocr_results.text_regions) = 2
    /\ fReturn.ocr_results.full_text # <<>>

(***************************************************************************)
(* Vocabulary of the test-run claims.                                      *)
(***************************************************************************)
\* The documents a run goes through, in processing order.
RECURSIVE FlatDocuments(_)
FlatDocuments(batch_ids) ==
    IF batch_ids = <<>> THEN <<>>
    ELSE (IF BatchExists(Head(batch_ids))
          THEN GetBatchById(Head(batch_ids)).documents ELSE <<>>)
         \o FlatDocuments(Tail(batch_ids))

\* Position, in FlatDocuments, of the document a log entry is about.
FlatPosition(e) == Len(FlatDocuments(SubSeq(task.batch_ids, 1, e.pass - 1))) + e.i

DocumentOps ==
    {"download_file", "get_layout_detector", "get_ocr_engine", "detect",
     "extract_text", "create_result", "progress_callback"}

PerDocumentWork == {"download_file", "detect", "extract_text", "create_result"}

LogIdx == 1..Len(log)
ByRunTests == caller = "run_tests"

\* C1: when the processing of a document raises, the run ends failed with the
\* exception text as error_message, the results of the documents before the
\* failing one are the stored results, and nothing is done for a later one.
C1_AbortOnFirstFailure ==
    (ByRunTests /\ raised # None) =>
        /\ pc = "done"
        /\ testRun.status = "failed"
        /\ testRun.error_message = raised
        /\ LET flat == FlatDocuments(task.batch_ids)
               n == Len(results)
           IN  /\ n < Len(flat)
               /\ \A k \in 1..n :
                     /\ results[k].document_id = flat[k]
                     /\ results[k].test_run_id = RunId
               /\ \A p \in LogIdx :
                     log[p].op \in DocumentOps => FlatPosition(log[p]) <= n + 1
               /\ \E p \in LogIdx :
                     log[p].op \in DocumentOps /\ FlatPosition(log[p]) = n + 1

\* C1 witness: detection raised on a document that has documents before it
\* and after it; the run is failed with that text and holds the earlier results.
C1_Witness ==
    /\ ByRunTests
    /\ raised = DetectError
    /\ testRun.status = "failed"
    /\ testRun.error_message = DetectError
    /\ Len(results) >= 1
    /\ Len(results) + 1 < Len(FlatDocuments(task.batch_ids))

PassBatch(e) == GetBatchById(task.batch_ids[e.pass])

\* C2: in process_batch the i-th document's result is stored before
\* progress_callback(i, N) is called, and that callback has completed before
\* anything is done for document i+1; documents go in batch order.
C2_BatchOrder ==
    ByRunTests =>
        /\ \A p \in LogIdx :
              log[p].op = "create_result" =>
                  /\ log[p].doc = PassBatch(log[p]).documents[log[p].i]
                  /\ p < Len(log) =>
                        /\ log[p + 1].op = "progress_callback"
                        /\ log[p + 1].pass = log[p].pass
                        /\ log[p + 1].i = log[p].i
                        /\ log[p + 1].total = Len(PassBatch(log[p]).documents)
        /\ \A p \in LogIdx :
              log[p].op = "progress_callback" =>
                  /\ p > 1
                  /\ log[p - 1].op = "create_result"
                  /\ p < Len(log)
                  /\ log[p + 1].op = "update_test_run_status"
        /\ \A p \in LogIdx, q \in LogIdx :
              (/\ p < q
               /\ log[p].op \in DocumentOps
               /\ log[q].op \in DocumentOps
               /\ log[p].pass = log[q].pass) =>
                  /\ log[p].i <= log[q].i
                  /\ log[p].i < log[q].i =>
                        \E c \in p..(q - 2) :
                            /\ log[c].op = "progress_callback"
                            /\ log[c].pass = log[p].pass
                            /\ log[c].i = log[p].i
                            /\ log[c + 1].op = "update_test_run_status"

\* C2 witness: in a batch of three, the callbacks (1, 3) and (2, 3) were made
\* and the third document is being processed.
C2_Witness ==
    /\ ByRunTests
    /\ \E p \in LogIdx, q \in LogIdx, r \in LogIdx :
          /\ p < q
          /\ q < r
          /\ log[p].op = "progress_callback" /\ log[p].i = 1 /\ log[p].total = 3
          /\ log[q].op = "progress_callback" /\ log[q].i = 2 /\ log[q].total = 3
          /\ log[q].pass = log[p].pass
          /\ log[r].op = "download_file" /\ log[r].i = 3 /\ log[r].pass = log[p].pass

ProcessedWrites ==
    {p \in LogIdx : log[p].op = "update_test_run_status" /\ log[p].has_processed}

ResultsStoredBefore(p) ==
    Cardinality({q \in 1..(p - 1) : log[q].op = "create_result"})

\* C3: the processed_documents values written for a run never decrease, each
\* progress write is the previous value plus 1, and every written value is
\* the number of results stored so far.
C3_ProcessedCount ==
    ByRunTests =>
        /\ \A p \in ProcessedWrites : log[p].processed = ResultsStoredBefore(p)
        /\ \A p \in ProcessedWrites, q \in ProcessedWrites :
              p < q => log[p].processed <= log[q].processed
        /\ \A q \in ProcessedWrites :
              log[q].status = "running" =>
                  \/ /\ log[q].processed = 1
                     /\ \A p \in ProcessedWrites : p >= q
                  \/ \E p \in ProcessedWrites :
                        /\ p < q
                        /\ log[q].processed = log[p].processed + 1
                        /\ \A o \in ProcessedWrites : ~(p < o /\ o < q)

\* C3 witness: a run over two batches completed, its last progress write and
\* its completed write both carrying the number of stored results.
C3_Witness ==
    /\ ByRunTests
    /\ pc = "done"
    /\ testRun.status = "completed"
    /\ Len(task.batch_ids) = 2
    /\ Len(results) = 4
    /\ testRun.processed_documents = 4
    /\ \E p \in ProcessedWrites : log[p].status = "running" /\ log[p].processed = 4

\* C4: after a run that run_tests accepted has finished, the result store holds
\* at most one result for each (test_run_id, document_id) pair.
C4_OneResultPerDocument ==
    (ByRunTests /\ pc = "done") =>
        \A i \in 1..Len(results), j \in 1..Len(results) :
            (/\ results[i].test_run_id = results[j].test_run_id
             /\ results[i].document_id = results[j].document_id) => i = j

\* An adapter name the run would look up is not in its registry.
UsesUnknownName(a) ==
    \/ a.ocr_library \notin OcrEngineNames
    \/ /\ a.layout_library \notin LayoutDetectorNames
       /\ HasSynthetic(a.batch_ids)

\* C5: a run started with an unknown adapter name fails before any
\* per-document work (no download, no detection, no extraction, no result);
\* through run_tests no test-run record is created and no task is scheduled.
C5_UnknownNamesFailFast ==
    /\ (response # "none" /\ UsesUnknownName(request)) =>
           /\ ~testRun.exists
           /\ pc = "idle"
           /\ log = <<>>
           /\ results = <<>>
    /\ (caller = "direct" /\ UsesUnknownName(task)) =>
           /\ \A p \in LogIdx : log[p].op \notin PerDocumentWork
           /\ results = <<>>

=============================================================================
